---------------------------- MODULE Spec2Model ----------------------------
(***************************************************************************)
(* A model of pvr.iptvsimple's playlist loader (PlaylistLoader.cpp) and of *)
(* the add-on aggregate that owns the stores, the mutex and the refresh    *)
(* thread (PVRIptvData.cpp).                                               *)
(*                                                                         *)
(* Text.  A playlist line is a sequence of tokens.  A token stands for a   *)
(* run of characters the loader never looks into: a marker ("tvg-id=",     *)
(* "#EXTINF"), a separator (":", ",", the double quote, the blank, "=",    *)
(* ";", ".") or a value atom ("News", "-1").  std::string::find, rfind and *)
(* substr become searches and sub-sequences over tokens, with 1-based      *)
(* indices and 0 for std::string::npos.                                    *)
(***************************************************************************)
EXTENDS Integers, Sequences, FiniteSets, TLC

VARIABLES
  settings,            \* Settings::GetInstance(): the configuration the loader reads and writes
  pool,                \* the lines the file fetcher's content is made of
  m_m3uLocation,       \* PlaylistLoader::m_m3uLocation
  m_m3uHeaderStrings,  \* PlaylistLoader::m_m3uHeaderStrings
  m_channels,          \* PVRIptvData::m_channels
  m_channelGroups,     \* PVRIptvData::m_channelGroups
  m_providers,         \* PVRIptvData::m_providers
  m_media,             \* PVRIptvData::m_media
  lpc,                 \* where the thread that runs the loader is inside it, and who called
  lv,                  \* LoadPlayList's locals
  io,                  \* the file fetcher's stream: lines read, the most it delivers, the content fetched before
  host,                \* what the host was told: update triggers, in order
  hist,                \* history: loads begun and the most there are, the stores as the last finished load left
                       \* them, the lines read and the insertion attempts of the load under way
  m_mutex,             \* PVRIptvData::m_mutex: the thread that holds it
  m_running,           \* PVRIptvData::m_running
  m_reloadChannelsGroupsAndEPG,  \* PVRIptvData::m_reloadChannelsGroupsAndEPG
  life,                \* where Create and the destructor are
  proc,                \* the refresh thread: where Process is, and its locals
  req,                 \* the host's request threads: the call each is in
  clock,               \* the wall clock the refresh thread reads: the hour, and (history) whether it
                       \* has changed since the add-on was constructed
  m_currentChannel     \* PVRIptvData::m_currentChannel: the one channel the stream-property calls share

lvars == << settings, pool, m_m3uLocation, m_m3uHeaderStrings, m_channels,
            m_channelGroups, m_providers, m_media, lpc, lv, io, host, hist >>

tvars ==
  << m_mutex, m_running, m_reloadChannelsGroupsAndEPG, life, proc, req, clock, m_currentChannel >>

vars == << lvars, tvars >>

-----------------------------------------------------------------------------
(* Bounds of the model *)

MaxLines == 4
MaxLoads == 2
MaxSameLoads == 3
MaxSameLines == 3
MaxFairLines == 1
MaxThreadLines == 2
MaxHour == 1
MaxCommitLines == 5
MaxParseLines == 3
MaxPlayableLines == 3
MaxPlayableLoads == 1
MaxPropertyLines == 4
MaxNumberLines == 4
MaxRefreshLines == 1
MaxSettingLines == 1
MaxStreamLines == 3

-----------------------------------------------------------------------------
(* Tokens *)

QUOTE == "\""
SPACE == " "
COMMA == ","
COLON == ":"
EQUALS == "="
DOT == "."
SEMICOLON == ";"
BOM == "BOM"
HASH == "#"

M3U_START_MARKER == "#EXTM3U"
M3U_INFO_MARKER == "#EXTINF"
M3U_GROUP_MARKER == "#EXTGRP:"
KODIPROP_MARKER == "#KODIPROP:"
EXTVLCOPT_MARKER == "#EXTVLCOPT:"
EXTVLCOPT_DASH_MARKER == "#EXTVLCOPT--"
PLAYLIST_TYPE_MARKER == "#EXT-X-PLAYLIST-TYPE:"

TVG_INFO_ID_MARKER == "tvg-id="
TVG_INFO_ID_MARKER_UC == "tvg-ID="
TVG_INFO_NAME_MARKER == "tvg-name="
TVG_INFO_LOGO_MARKER == "tvg-logo="
TVG_INFO_CHNO_MARKER == "tvg-chno="
CHANNEL_NUMBER_MARKER == "channel-number="
TVG_INFO_SHIFT_MARKER == "tvg-shift="
TVG_INFO_REC == "tvg-rec="
TVG_URL_MARKER == "x-tvg-url="
TVG_URL_OTHER_MARKER == "url-tvg="
RADIO_MARKER == "radio="
GROUP_NAME_MARKER == "group-title="
CATCHUP == "catchup="
CATCHUP_TYPE == "catchup-type="
CATCHUP_DAYS == "catchup-days="
CATCHUP_SOURCE == "catchup-source="
CATCHUP_SIPTV == "timeshift="
CATCHUP_CORRECTION == "catchup-correction="
PROVIDER == "provider="
PROVIDER_TYPE == "provider-type="
MEDIA == "media="
MEDIA_DIR == "media-dir="
MEDIA_SIZE == "media-size="

PVR_STREAM_PROPERTY_INPUTSTREAM == "inputstream"
PVR_STREAM_PROPERTY_ISREALTIMESTREAM == "isrealtimestream"

(* The sentinel "no day constraint" of the catchup window. *)
IGNORE_CATCHUP_DAYS == -1

(* The tokens that are integers, and the integer each one is. *)
IntTokens == {"-1", "0", "1", "2", "3", "5", "7"}

IntOf(tok) ==
  CASE tok = "-1" -> -1
    [] tok = "0" -> 0
    [] tok = "1" -> 1
    [] tok = "2" -> 2
    [] tok = "3" -> 3
    [] tok = "5" -> 5
    [] tok = "7" -> 7
    [] OTHER -> 0

(* sprintf("%d", n): the token that renders n. *)
IntToStr(n) == << CHOOSE tok \in IntTokens : IntOf(tok) = n >>

(* StringUtils::ToLower on one token. *)
ToLowerTok(tok) ==
  CASE tok = "VOD" -> "vod"
    [] tok = "Default" -> "default"
    [] tok = "XC" -> "xc"
    [] tok = "TRUE" -> "true"
    [] tok = "HTTP-User-Agent" -> "http-user-agent"
    [] tok = "InputStreamAddon" -> "inputstreamaddon"
    [] OTHER -> tok

ToLower(s) == [i \in 1..Len(s) |-> ToLowerTok(s[i])]

EqualsNoCase(s, word) == ToLower(s) = << word >>

-----------------------------------------------------------------------------
(* std::string and StringUtils on token sequences *)

(* line.find(tok, from): the first index >= from that holds tok, 0 for npos. *)
Find(line, tok, from) ==
  LET hits == {i \in from..Len(line) : line[i] = tok}
  IN IF hits = {} THEN 0 ELSE CHOOSE i \in hits : \A j \in hits : i <= j

(* line.rfind(tok): the last index that holds tok, 0 for npos. *)
RFind(line, tok) ==
  LET hits == {i \in 1..Len(line) : line[i] = tok}
  IN IF hits = {} THEN 0 ELSE CHOOSE i \in hits : \A j \in hits : i >= j

(* line.substr(from): the rest of the line from index from on. *)
SubstrFrom(line, from) == SubSeq(line, from, Len(line))

RECURSIVE TrimLeft(_)
TrimLeft(s) == IF s # <<>> /\ Head(s) = SPACE THEN TrimLeft(Tail(s)) ELSE s

RECURSIVE TrimRight(_)
TrimRight(s) ==
  IF s # <<>> /\ s[Len(s)] = SPACE THEN TrimRight(SubSeq(s, 1, Len(s) - 1)) ELSE s

Trim(s) == TrimLeft(TrimRight(s))

StartsWith(s, tok) == Len(s) >= 1 /\ s[1] = tok

(* std::atoi: the integer that leads the text after blanks, 0 when none does. *)
Atoi(s) ==
  LET t == TrimLeft(s)
  IN IF t # <<>> /\ t[1] \in IntTokens THEN IntOf(t[1]) ELSE 0

(* static_cast<int>(std::atof(s) * 3600.0): decimal hours to seconds, one
   fractional digit read, rounded toward zero. *)
AtofHoursToSecs(s) ==
  LET t == TrimLeft(s)
      whole == IF t # <<>> /\ t[1] \in IntTokens THEN IntOf(t[1]) ELSE 0
      hasInt == t # <<>> /\ t[1] \in IntTokens
      frac == IF hasInt /\ Len(t) >= 3 /\ t[2] = DOT /\ t[3] \in IntTokens /\ IntOf(t[3]) >= 0
              THEN IntOf(t[3]) ELSE 0
  IN IF whole < 0 THEN whole * 3600 - frac * 360 ELSE whole * 3600 + frac * 360

(* PlaylistLoader::ReadMarkerValue: the text after the first occurrence of the
   marker, up to the closing quote when the value opens with one, else up to the
   next blank, else to the end of the line. *)
ReadMarkerValue(line, markerName) ==
  LET found == Find(line, markerName, 1)
      markerStart == found + 1
  IN IF found = 0 \/ markerStart > Len(line) THEN <<>>
     ELSE LET quoted == line[markerStart] = QUOTE
              from == IF quoted THEN markerStart + 1 ELSE markerStart
              hit == Find(line, IF quoted THEN QUOTE ELSE SPACE, from)
              markerEnd == IF hit = 0 THEN Len(line) + 1 ELSE hit
          IN SubSeq(line, from, markerEnd - 1)


(* std::getline(stream, part, delim) until the stream ends: the parts between
   the delimiters; a trailing delimiter opens no further part. *)
RECURSIVE GetLineSplit(_, _)
GetLineSplit(s, delim) ==
  IF s = <<>> THEN <<>>
  ELSE LET i == Find(s, delim, 1)
       IN IF i = 0 THEN << s >>
          ELSE << SubSeq(s, 1, i - 1) >> \o GetLineSplit(SubstrFrom(s, i + 1), delim)

-----------------------------------------------------------------------------
(* The data model: scratch records and the four stores *)

(* A Channel as constructed, and as Channel::Reset leaves it. *)
EmptyChannel ==
  [channelNumber |-> 0, subChannelNumber |-> 0, channelName |-> <<>>,
   tvgId |-> <<>>, tvgName |-> <<>>, iconPath |-> <<>>, tvgShift |-> 0,
   radio |-> FALSE, catchupCorrectionSecs |-> 0, hasCatchup |-> FALSE,
   catchupMode |-> "DISABLED", catchupTSStream |-> FALSE, catchupDays |-> 0,
   catchupSource |-> <<>>, providerUniqueId |-> 0, properties |-> {},
   streamURL |-> <<>>, uniqueId |-> <<>>]

(* A MediaEntry as constructed, and as MediaEntry::Reset leaves it. *)
EmptyMediaEntry ==
  [directory |-> <<>>, sizeInBytes |-> 0, title |-> <<>>, tvgId |-> <<>>,
   tvgName |-> <<>>, providerUniqueId |-> 0, properties |-> {},
   streamURL |-> <<>>, uniqueId |-> <<>>]

(* Channel::AddProperty: std::map::insert, which keeps an existing key's value. *)
AddProperty(channel, prop, value) ==
  IF \E kv \in channel.properties : kv[1] = prop THEN channel
  ELSE [channel EXCEPT !.properties = @ \cup {<< prop, value >>}]

(* Channel::ConfigureCatchupMode, the deferred configuration at commit: a
   catchup channel without a source of its own gets its mode's default source. *)
ConfigureCatchupMode(channel) ==
  IF channel.hasCatchup /\ channel.catchupSource = <<>>
  THEN [channel EXCEPT !.catchupSource = << "mode-default", channel.catchupMode >>]
  ELSE channel

(* MediaEntry::UpdateFrom: the scratch channel's fields folded into the entry. *)
UpdateFrom(entry, channel) ==
  [entry EXCEPT !.title = channel.channelName, !.tvgId = channel.tvgId,
                !.tvgName = channel.tvgName,
                !.providerUniqueId = channel.providerUniqueId,
                !.properties = channel.properties]

(* The unique id of a channel or media entry: a function of name and URL. *)
GenerateId(name, url) == << name, url >>

(* Channels as constructed, and as Channels::Clear leaves it. *)
EmptyChannels == [list |-> <<>>, current |-> 1, loadFailed |-> FALSE]

(* ChannelGroups as constructed, and as ChannelGroups::Clear leaves it. *)
EmptyChannelGroups == [list |-> <<>>, loadFailed |-> FALSE]

(* ChannelGroups::CheckChannelGroupAllowed: the configured filter. *)
CheckChannelGroupAllowed(cfg, groupName, isRadio) ==
  groupName \notin cfg.blockedGroups

(* The id ChannelGroups::AddChannelGroup gives: the id of the group with that
   (name, medium) when there is one, else the next id. *)
GroupIdOf(groups, groupName, isRadio) ==
  LET same == {i \in 1..Len(groups.list) :
                 groups.list[i].groupName = groupName /\ groups.list[i].radio = isRadio}
  IN IF same = {} THEN Len(groups.list) + 1
     ELSE groups.list[CHOOSE i \in same : TRUE].uniqueId

(* ChannelGroups::AddChannelGroup: first occurrence wins, ids from 1. *)
AddChannelGroup(groups, groupName, isRadio) ==
  IF GroupIdOf(groups, groupName, isRadio) <= Len(groups.list) THEN groups
  ELSE [groups EXCEPT !.list = Append(@, [uniqueId |-> Len(groups.list) + 1,
                                          groupName |-> groupName,
                                          radio |-> isRadio, members |-> <<>>])]

(* Providers::AddProvider: no provider for the empty name, the existing one for
   a known name, else a new one with the next id (from 1).  The result is the
   store and the provider's id (0: none). *)
AddProvider(providers, name) ==
  LET same == {i \in 1..Len(providers) : providers[i].name = name}
  IN IF name = <<>> THEN [providers |-> providers, id |-> 0]
     ELSE IF same # {} THEN [providers |-> providers, id |-> CHOOSE i \in same : TRUE]
     ELSE [providers |-> Append(providers, [uniqueId |-> Len(providers) + 1,
                                            name |-> name, type |-> "UNKNOWN"]),
           id |-> Len(providers) + 1]

(* Whether the configuration admits only channels with groups, for the medium. *)
ChannelTypeAllowsGroupsOnly(cfg, isRadio) ==
  IF isRadio THEN cfg.radioGroupsOnly ELSE cfg.tvGroupsOnly

(* Channels::AddChannel: rejected when the configuration requires group
   membership and the block had no group; else the channel gets its id, joins
   the groups of the list, is appended, and the ordinal moves past its number.
   The result is both stores and whether the channel was added. *)
AddChannel(channels, groups, cfg, channel, groupIdList, channelHadGroups) ==
  IF ChannelTypeAllowsGroupsOnly(cfg, channel.radio) /\ ~channelHadGroups
  THEN [channels |-> channels, groups |-> groups, added |-> FALSE]
  ELSE LET ch == [channel EXCEPT !.uniqueId = GenerateId(channel.channelName, channel.streamURL)]
           ids == {groupIdList[i] : i \in 1..Len(groupIdList)}
       IN [channels |-> [channels EXCEPT !.list = Append(@, ch),
                                         !.current = ch.channelNumber + 1],
           groups |-> [groups EXCEPT !.list =
                         [i \in 1..Len(groups.list) |->
                            IF groups.list[i].uniqueId \in ids
                            THEN [groups.list[i] EXCEPT !.members = Append(@, ch.uniqueId)]
                            ELSE groups.list[i]]],
           added |-> TRUE]

(* Media::AddMediaEntry: rejected when an entry with the same unique id is stored. *)
AddMediaEntry(media, entry) ==
  LET e == [entry EXCEPT !.uniqueId = GenerateId(entry.title, entry.streamURL)]
  IN IF \E i \in 1..Len(media) : media[i].uniqueId = e.uniqueId
     THEN [media |-> media, added |-> FALSE]
     ELSE [media |-> Append(media, e), added |-> TRUE]

-----------------------------------------------------------------------------
(* PlaylistLoader::ParseIntoChannel *)

(* The comma of line 239 alone: the last one of the line. *)
CommaIndexLast(line) == RFind(line, COMMA)

(* The comma that ends the attribute section: the first comma after the last
   quote when the text after that quote, trimmed, begins with a comma; else the
   last comma of the line (0: none). *)
CommaIndexOf(line) ==
  LET lastQuoteIndex == RFind(line, QUOTE)
      possibleName == SubstrFrom(line, lastQuoteIndex + 1)
  IN IF lastQuoteIndex # 0 /\ StartsWith(Trim(possibleName), COMMA)
     THEN lastQuoteIndex + Find(possibleName, COMMA, 1)
     ELSE RFind(line, COMMA)

(* The guard of the parse: a colon, a comma, and the comma after the colon. *)
IsWellFormedInfoLine(line) ==
  LET colonIndex == Find(line, COLON, 1)
      commaIndex == CommaIndexOf(line)
  IN colonIndex # 0 /\ commaIndex # 0 /\ commaIndex > colonIndex

(* The attribute section: between the first colon and the chosen comma. *)
InfoLineOf(line) ==
  SubSeq(line, Find(line, COLON, 1) + 1, CommaIndexOf(line) - 1)

(* The display name: the text after the chosen comma, trimmed. *)
ChannelNameOf(line) == Trim(SubstrFrom(line, CommaIndexOf(line) + 1))

(* strCatchup: catchup, else catchup-type, else the header's value. *)
CatchupTokenOf(infoLine, hdr) ==
  LET own == ReadMarkerValue(infoLine, CATCHUP)
      other == IF own = <<>> THEN ReadMarkerValue(infoLine, CATCHUP_TYPE) ELSE own
  IN IF other = <<>> /\ hdr.m_catchup # <<>> THEN hdr.m_catchup ELSE other

(* strTvgId without lines 302 to 307. *)
TvgIdWithoutSynthetic(infoLine) ==
  LET own == ReadMarkerValue(infoLine, TVG_INFO_ID_MARKER)
  IN IF own = <<>> THEN ReadMarkerValue(infoLine, TVG_INFO_ID_MARKER_UC) ELSE own

(* strTvgId: tvg-id, else tvg-ID, else the rendering of the attribute section's
   leading integer. *)
TvgIdOf(infoLine) ==
  LET own == ReadMarkerValue(infoLine, TVG_INFO_ID_MARKER)
      uc == IF own = <<>> THEN ReadMarkerValue(infoLine, TVG_INFO_ID_MARKER_UC) ELSE own
  IN IF uc = <<>> THEN IntToStr(Atoi(infoLine)) ELSE uc

(* The channel number and sub-number after tvg-chno / channel-number. *)
ChannelNumberOf(channel, infoLine, cfg) ==
  LET own == ReadMarkerValue(infoLine, TVG_INFO_CHNO_MARKER)
      strChnlNo == IF own = <<>> THEN ReadMarkerValue(infoLine, CHANNEL_NUMBER_MARKER) ELSE own
      found == Find(strChnlNo, DOT, 1)
  IN IF strChnlNo # <<>> /\ ~cfg.numberByOrderOnly
     THEN IF found # 0
          THEN [number |-> Atoi(SubSeq(strChnlNo, 1, found - 1)),
                sub |-> Atoi(SubstrFrom(strChnlNo, found + 1))]
          ELSE [number |-> Atoi(strChnlNo), sub |-> channel.subChannelNumber]
     ELSE [number |-> channel.channelNumber, sub |-> channel.subChannelNumber]

(* The tokens that name a catchup mode, and the mode each names. *)
CatchupTokens ==
  {"default", "append", "shift", "flussonic", "flussonic-hls", "flussonic-ts", "fs", "xc", "vod"}

IsCatchupToken(strCatchup) == \E w \in CatchupTokens : EqualsNoCase(strCatchup, w)

ModeOfToken(strCatchup, old) ==
  CASE EqualsNoCase(strCatchup, "default") -> "DEFAULT"
    [] EqualsNoCase(strCatchup, "append") -> "APPEND"
    [] EqualsNoCase(strCatchup, "shift") -> "SHIFT"
    [] EqualsNoCase(strCatchup, "flussonic") \/ EqualsNoCase(strCatchup, "flussonic-hls")
       \/ EqualsNoCase(strCatchup, "flussonic-ts") \/ EqualsNoCase(strCatchup, "fs") -> "FLUSSONIC"
    [] EqualsNoCase(strCatchup, "xc") -> "XTREAM_CODES"
    [] EqualsNoCase(strCatchup, "vod") -> "VOD"
    [] OTHER -> old

(* siptvTimeshiftDays: timeshift, or tvg-rec when timeshift is absent or 0. *)
SiptvTimeshiftDaysOf(infoLine) ==
  LET strCatchupSiptv == ReadMarkerValue(infoLine, CATCHUP_SIPTV)
      strTvgRec == ReadMarkerValue(infoLine, TVG_INFO_REC)
      siptv == IF strCatchupSiptv # <<>> THEN Atoi(strCatchupSiptv) ELSE 0
  IN IF strTvgRec # <<>> /\ siptv = 0 THEN Atoi(strTvgRec) ELSE siptv

(* The catchup days the channel gets, given the mode chosen before and the
   siptv days. *)
CatchupDaysOf(strCatchupDays, hdr, mode, siptvTimeshiftDays, cfg) ==
  IF strCatchupDays # <<>> THEN Atoi(strCatchupDays)
  ELSE IF hdr.m_catchupSource # <<>> THEN Atoi(hdr.m_catchupDays)
  ELSE IF mode = "VOD" THEN IGNORE_CATCHUP_DAYS
  ELSE IF siptvTimeshiftDays > 0 THEN siptvTimeshiftDays
  ELSE cfg.catchupDays

(* The flags with a siptv rule that sets the mode and leaves hasCatchup. *)
CatchupFlagsSiptvModeOnly(channel, strCatchup, channelName, xeevCatchup, siptvTimeshiftDays) ==
  LET byToken == channel.hasCatchup \/ IsCatchupToken(strCatchup)
      xeev == ~byToken /\ xeevCatchup
              /\ (StartsWith(channelName, "* ") \/ StartsWith(channelName, "[+] "))
      siptv == ~byToken /\ ~xeev /\ siptvTimeshiftDays > 0
      mode == IF xeev THEN "XTREAM_CODES" ELSE ModeOfToken(strCatchup, channel.catchupMode)
  IN [hasCatchup |-> byToken \/ xeev,
      modeForDays |-> mode,
      catchupMode |-> IF siptv THEN "TIMESHIFT" ELSE mode,
      catchupTSStream |-> channel.catchupTSStream \/ EqualsNoCase(strCatchup, "flussonic-ts")
                          \/ EqualsNoCase(strCatchup, "fs")]

(* hasCatchup, the mode and the TS flag after the token, the xeev name rule and
   the siptv rule; modeForDays is the mode the catchup days are chosen under. *)
CatchupFlagsOf(channel, strCatchup, channelName, xeevCatchup, siptvTimeshiftDays) ==
  LET byToken == channel.hasCatchup \/ IsCatchupToken(strCatchup)
      xeev == ~byToken /\ xeevCatchup
              /\ (StartsWith(channelName, "* ") \/ StartsWith(channelName, "[+] "))
      siptv == ~byToken /\ ~xeev /\ siptvTimeshiftDays > 0
      mode == IF xeev THEN "XTREAM_CODES" ELSE ModeOfToken(strCatchup, channel.catchupMode)
  IN [hasCatchup |-> byToken \/ xeev \/ siptv,
      modeForDays |-> mode,
      catchupMode |-> IF siptv THEN "TIMESHIFT" ELSE mode,
      catchupTSStream |-> channel.catchupTSStream \/ EqualsNoCase(strCatchup, "flussonic-ts")
                          \/ EqualsNoCase(strCatchup, "fs")]

(* The provider type a provider-type value names. *)
ProviderTypeOf(strProviderType) ==
  LET t == ToLower(strProviderType)
  IN CASE t = << "addon" >> -> "ADDON"
       [] t = << "satellite" >> -> "SATELLITE"
       [] t = << "cable" >> -> "CABLE"
       [] t = << "aerial" >> -> "AERIAL"
       [] t = << "iptv" >> -> "IPTV"
       [] OTHER -> "UNKNOWN"

(* The provider got from AddProvider with its type set when the line gives one. *)
ProviderWithType(got, strProviderType) ==
  IF got.id # 0 /\ strProviderType # <<>>
  THEN [providers |-> [got.providers EXCEPT ![got.id].type = ProviderTypeOf(strProviderType)],
        id |-> got.id]
  ELSE got

(* The provider's name: the line's, else the configured default. *)
ProviderNameOf(own, cfg) ==
  IF own = <<>> /\ cfg.defaultProviderName # <<>> THEN cfg.defaultProviderName ELSE own

(* The provider part of the parse: the provider registered under the name, its
   type set when given. *)
ParseProvider(providers, infoLine, cfg) ==
  ProviderWithType(AddProvider(providers, ProviderNameOf(ReadMarkerValue(infoLine, PROVIDER), cfg)),
                   ReadMarkerValue(infoLine, PROVIDER_TYPE))

(* The tvg shift or the catchup correction: the line's value in seconds, the
   default when the line has none. *)
SecsOrDefault(str, default) == IF str = <<>> THEN default ELSE AtofHoursToSecs(str)

(* The scratch channel with the fields a well-formed line sets. *)
ChannelWith(channel, channelName, infoLine, chno, flags, siptvTimeshiftDays, cfg, hdr, epgTimeShift, catchupCorrectionSecs, providerId) ==
  [channel EXCEPT
     !.channelName = channelName,
     !.channelNumber = chno.number,
     !.subChannelNumber = chno.sub,
     !.tvgId = TvgIdOf(infoLine),
     !.tvgName = ReadMarkerValue(infoLine, TVG_INFO_NAME_MARKER),
     !.catchupSource = ReadMarkerValue(infoLine, CATCHUP_SOURCE),
     !.tvgShift = SecsOrDefault(ReadMarkerValue(infoLine, TVG_INFO_SHIFT_MARKER), epgTimeShift),
     !.radio = EqualsNoCase(ReadMarkerValue(infoLine, RADIO_MARKER), "true"),
     !.iconPath = IF cfg.useLocalLogosOnly THEN <<>>
                  ELSE ReadMarkerValue(infoLine, TVG_INFO_LOGO_MARKER),
     !.catchupCorrectionSecs = SecsOrDefault(ReadMarkerValue(infoLine, CATCHUP_CORRECTION),
                                             catchupCorrectionSecs),
     !.hasCatchup = flags.hasCatchup,
     !.catchupMode = flags.catchupMode,
     !.catchupTSStream = flags.catchupTSStream,
     !.catchupDays = CatchupDaysOf(ReadMarkerValue(infoLine, CATCHUP_DAYS), hdr,
                                   flags.modeForDays, siptvTimeshiftDays, cfg),
     !.providerUniqueId = IF providerId # 0 THEN providerId ELSE @]

(* The scratch channel after the attribute section infoLine and the name. *)
ChannelFrom(channel, channelName, infoLine, siptvTimeshiftDays, cfg, hdr, epgTimeShift, catchupCorrectionSecs, xeevCatchup, providerId) ==
  ChannelWith(channel, channelName, infoLine, ChannelNumberOf(channel, infoLine, cfg),
              CatchupFlagsOf(channel, CatchupTokenOf(infoLine, hdr), channelName,
                             xeevCatchup, siptvTimeshiftDays),
              siptvTimeshiftDays, cfg, hdr, epgTimeShift, catchupCorrectionSecs, providerId)

(* The scratch channel after a well-formed line. *)
ParsedChannel(line, channel, cfg, hdr, epgTimeShift, catchupCorrectionSecs, xeevCatchup, providerId) ==
  ChannelFrom(channel, ChannelNameOf(line), InfoLineOf(line),
              SiptvTimeshiftDaysOf(InfoLineOf(line)), cfg, hdr, epgTimeShift,
              catchupCorrectionSecs, xeevCatchup, providerId)

(* The scratch media entry after the attribute section's media-dir and
   media-size. *)
MediaEntryWith(mediaEntry, strMediaDir, strMediaSize) ==
  [mediaEntry EXCEPT
     !.directory = IF strMediaDir # <<>> THEN strMediaDir ELSE @,
     !.sizeInBytes = IF strMediaSize # <<>> THEN Atoi(strMediaSize) ELSE @]

(* The scratch media entry after a well-formed line. *)
ParsedMediaEntry(line, mediaEntry) ==
  MediaEntryWith(mediaEntry, ReadMarkerValue(InfoLineOf(line), MEDIA_DIR),
                 ReadMarkerValue(InfoLineOf(line), MEDIA_SIZE))

(* The result of a parse that registered the provider prov. *)
ParsedWith(line, channel, mediaEntry, prov, cfg, hdr, epgTimeShift, catchupCorrectionSecs, xeevCatchup) ==
  [channel |-> ParsedChannel(line, channel, cfg, hdr, epgTimeShift, catchupCorrectionSecs,
                             xeevCatchup, prov.id),
   mediaEntry |-> ParsedMediaEntry(line, mediaEntry),
   providers |-> prov.providers,
   groupNames |-> ReadMarkerValue(InfoLineOf(line), GROUP_NAME_MARKER)]

(* ParseIntoChannel: on a well-formed line the scratch channel, the scratch
   media entry and the provider store as the parse leaves them, and the
   group-title value; on a malformed line nothing changes and "" is returned. *)
ParseIntoChannel(line, channel, mediaEntry, providers, cfg, hdr, epgTimeShift, catchupCorrectionSecs, xeevCatchup) ==
  IF IsWellFormedInfoLine(line)
  THEN ParsedWith(line, channel, mediaEntry, ParseProvider(providers, InfoLineOf(line), cfg),
                  cfg, hdr, epgTimeShift, catchupCorrectionSecs, xeevCatchup)
  ELSE [channel |-> channel, mediaEntry |-> mediaEntry, providers |-> providers,
        groupNames |-> <<>>]

-----------------------------------------------------------------------------
(* PlaylistLoader::LoadPlayList, one line at a time.  The loader's world w is
   the record of everything a line can change: the locals (lv), the header
   strings (hdr), the four stores and the settings. *)

(* LoadPlayList's locals as declared before the loop. *)
InitialLocals(cfg) ==
  [line |-> <<>>, isFirstLine |-> TRUE, isRealTime |-> TRUE, isMediaEntry |-> FALSE,
   epgTimeShift |-> 0, catchupCorrectionSecs |-> cfg.catchupCorrectionSecs,
   currentChannelGroupIdList |-> <<>>, channelHadGroups |-> FALSE,
   xeevCatchup |-> FALSE, tmpChannel |-> EmptyChannel,
   tmpMediaEntry |-> EmptyMediaEntry, headerRead |-> FALSE]

(* The tokens a '#' leads. *)
HashTokens ==
  {M3U_START_MARKER, M3U_INFO_MARKER, M3U_GROUP_MARKER, KODIPROP_MARKER,
   EXTVLCOPT_MARKER, EXTVLCOPT_DASH_MARKER, PLAYLIST_TYPE_MARKER, HASH}

(* line[0] != '#': also true of the empty text a line of only a BOM leaves. *)
IsUrlLine(line) == line = <<>> \/ line[1] \notin HashTokens

(* The #EXTM3U line: the header defaults, the header strings and the tvgUrl
   (headerRead is history: this load has read a header). *)
ReadHeader(w, line) ==
  LET strCatchupCorrection == ReadMarkerValue(line, CATCHUP_CORRECTION)
      catchup == ReadMarkerValue(line, CATCHUP)
      tvgUrl == ReadMarkerValue(line, TVG_URL_MARKER)
  IN [w EXCEPT
        !.lv.epgTimeShift = AtofHoursToSecs(ReadMarkerValue(line, TVG_INFO_SHIFT_MARKER)),
        !.lv.catchupCorrectionSecs = IF strCatchupCorrection # <<>>
                                     THEN AtofHoursToSecs(strCatchupCorrection) ELSE @,
        !.lv.xeevCatchup = @ \/ catchup = << "xc" >>,
        !.lv.headerRead = TRUE,
        !.hdr = [m_catchup |-> IF catchup = <<>> THEN ReadMarkerValue(line, CATCHUP_TYPE)
                               ELSE catchup,
                 m_catchupDays |-> ReadMarkerValue(line, CATCHUP_DAYS),
                 m_catchupSource |-> ReadMarkerValue(line, CATCHUP_SOURCE)],
        !.settings.tvgUrl = IF tvgUrl = <<>> THEN ReadMarkerValue(line, TVG_URL_OTHER_MARKER)
                            ELSE tvgUrl]

(* PlaylistLoader::ParseAndAddChannelGroups: every name between ';' that the
   configuration allows is registered and its id appended to the list. *)
RECURSIVE AddGroupNames(_, _, _, _, _)
AddGroupNames(names, groups, groupIdList, isRadio, cfg) ==
  IF names = <<>> THEN [groups |-> groups, groupIdList |-> groupIdList]
  ELSE IF CheckChannelGroupAllowed(cfg, Head(names), isRadio)
       THEN AddGroupNames(Tail(names), AddChannelGroup(groups, Head(names), isRadio),
                          Append(groupIdList, GroupIdOf(groups, Head(names), isRadio)),
                          isRadio, cfg)
       ELSE AddGroupNames(Tail(names), groups, groupIdList, isRadio, cfg)

ParseAndAddChannelGroups(groupNamesListString, groups, groupIdList, isRadio, cfg) ==
  AddGroupNames(GetLineSplit(groupNamesListString, SEMICOLON), groups, groupIdList, isRadio, cfg)

(* The world with the groups and the group-id list got from a line's names. *)
WithGroupsGot(w, got) ==
  [w EXCEPT !.groups = got.groups, !.lv.currentChannelGroupIdList = got.groupIdList,
            !.lv.channelHadGroups = TRUE]

(* The world after the group names of a line, when there are any. *)
WithGroups(w, groupNamesListString) ==
  IF groupNamesListString = <<>> THEN w
  ELSE WithGroupsGot(w, ParseAndAddChannelGroups(groupNamesListString, w.groups,
                                                 w.lv.currentChannelGroupIdList,
                                                 w.lv.tmpChannel.radio, w.settings))

(* What the loader itself does at an #EXTINF line before the parse. *)
BeginInfoLine(w, line) ==
  [w EXCEPT !.lv.tmpChannel.channelNumber = w.channels.current,
            !.lv.currentChannelGroupIdList = <<>>,
            !.lv.isMediaEntry = Find(line, MEDIA, 1) # 0 \/ Find(line, MEDIA_DIR, 1) # 0
                                \/ Find(line, MEDIA_SIZE, 1) # 0]

(* The world after ParseIntoChannel returned got. *)
AfterParse(b, got) ==
  WithGroups([b EXCEPT !.lv.tmpChannel = got.channel, !.lv.tmpMediaEntry = got.mediaEntry,
                       !.providers = got.providers],
             got.groupNames)

(* ParseIntoChannel called on the world b. *)
ParseInWorld(b, line) ==
  AfterParse(b, ParseIntoChannel(line, b.lv.tmpChannel, b.lv.tmpMediaEntry, b.providers,
                                 b.settings, b.hdr, b.lv.epgTimeShift,
                                 b.lv.catchupCorrectionSecs, b.lv.xeevCatchup))

(* The #EXTINF branch. *)
ReadInfoLine(w, line) == ParseInWorld(BeginInfoLine(w, line), line)

(* ParseSinglePropertyIntoChannel without the ToLower of line 491. *)
ParseSinglePropertyCaseKept(line, channel, markerName) ==
  LET value == ReadMarkerValue(line, markerName)
      pos == Find(value, EQUALS, 1)
      lower == SubSeq(value, 1, pos - 1)
      propValue == SubstrFrom(value, pos + 1)
      addProperty ==
        IF markerName = EXTVLCOPT_DASH_MARKER THEN lower = << "http-reconnect" >>
        ELSE IF markerName = EXTVLCOPT_MARKER
             THEN lower \in {<< "http-user-agent" >>, << "http-referrer" >>, << "program" >>}
             ELSE TRUE
      prop == IF markerName = KODIPROP_MARKER
                 /\ lower \in {<< "inputstreamaddon" >>, << "inputstreamclass" >>}
              THEN << PVR_STREAM_PROPERTY_INPUTSTREAM >> ELSE lower
  IN IF pos # 0 /\ addProperty THEN AddProperty(channel, prop, propValue) ELSE channel

(* PlaylistLoader::ParseSinglePropertyIntoChannel. *)
ParseSinglePropertyIntoChannel(line, channel, markerName) ==
  LET value == ReadMarkerValue(line, markerName)
      pos == Find(value, EQUALS, 1)
      lower == ToLower(SubSeq(value, 1, pos - 1))
      propValue == SubstrFrom(value, pos + 1)
      addProperty ==
        IF markerName = EXTVLCOPT_DASH_MARKER THEN lower = << "http-reconnect" >>
        ELSE IF markerName = EXTVLCOPT_MARKER
             THEN lower \in {<< "http-user-agent" >>, << "http-referrer" >>, << "program" >>}
             ELSE TRUE
      prop == IF markerName = KODIPROP_MARKER
                 /\ lower \in {<< "inputstreamaddon" >>, << "inputstreamclass" >>}
              THEN << PVR_STREAM_PROPERTY_INPUTSTREAM >> ELSE lower
  IN IF pos # 0 /\ addProperty THEN AddProperty(channel, prop, propValue) ELSE channel

(* The test of line 184 without its last conjunct. *)
CommitsChannelWhateverTheMarkers(w) ==
  w.lv.isRealTime \/ ~w.settings.mediaEnabled \/ ~w.settings.showVodAsRecordings

(* Whether the URL line commits a channel (else a media entry). *)
CommitsChannel(w) ==
  (w.lv.isRealTime \/ ~w.settings.mediaEnabled \/ ~w.settings.showVodAsRecordings)
  /\ ~w.lv.isMediaEntry

(* The reset of the URL branch without line 210. *)
ResetScratchButHadGroups(w) ==
  [w EXCEPT !.lv.tmpChannel = EmptyChannel, !.lv.tmpMediaEntry = EmptyMediaEntry,
            !.lv.isRealTime = TRUE, !.lv.isMediaEntry = FALSE]

(* The scratch state the URL branch resets. *)
ResetScratch(w) ==
  [w EXCEPT !.lv.tmpChannel = EmptyChannel, !.lv.tmpMediaEntry = EmptyMediaEntry,
            !.lv.isRealTime = TRUE, !.lv.isMediaEntry = FALSE,
            !.lv.channelHadGroups = FALSE]

(* The channel the URL line commits: the scratch channel marked real-time,
   with the URL, configured for catchup. *)
ChannelToCommit(w, line) ==
  ConfigureCatchupMode(
    [AddProperty(w.lv.tmpChannel, << PVR_STREAM_PROPERTY_ISREALTIMESTREAM >>, << "true" >>)
       EXCEPT !.streamURL = line])

(* The media entry the URL line commits. *)
MediaEntryToCommit(w, line) ==
  [UpdateFrom(w.lv.tmpMediaEntry, w.lv.tmpChannel) EXCEPT !.streamURL = line]

(* What the debug log of the URL branch tells of one insertion attempt (lines
   182, 193 and 202): the store, the URL, and whether the entry was added. *)
Attempt(store, line, added) == [store |-> store, url |-> line, added |-> added]

AfterAddChannel(w, got, line) ==
  [w EXCEPT !.channels = got.channels, !.groups = got.groups,
            !.log = Append(@, Attempt("channels", line, got.added))]

AfterAddMediaEntry(w, got, line) ==
  [w EXCEPT !.media = got.media, !.log = Append(@, Attempt("media", line, got.added))]

(* A URL branch that gives up inserting once an entry was rejected. *)
InsertEntryUntilRejected(w, line) ==
  IF \E i \in 1..Len(w.log) : ~w.log[i].added THEN w
  ELSE IF CommitsChannel(w)
  THEN AfterAddChannel(w, AddChannel(w.channels, w.groups, w.settings,
                                     ChannelToCommit(w, line),
                                     w.lv.currentChannelGroupIdList, w.lv.channelHadGroups),
                       line)
  ELSE AfterAddMediaEntry(w, AddMediaEntry(w.media, MediaEntryToCommit(w, line)), line)

(* The insertion attempt of the URL branch. *)
InsertEntry(w, line) ==
  IF CommitsChannel(w)
  THEN AfterAddChannel(w, AddChannel(w.channels, w.groups, w.settings,
                                     ChannelToCommit(w, line),
                                     w.lv.currentChannelGroupIdList, w.lv.channelHadGroups),
                       line)
  ELSE AfterAddMediaEntry(w, AddMediaEntry(w.media, MediaEntryToCommit(w, line)), line)

(* The URL branch: one insertion attempt, then the reset. *)
CommitEntry(w, line) == ResetScratch(InsertEntry(w, line))

(* The dispatch on the line's prefix. *)
Dispatch(w, line) ==
  IF StartsWith(line, M3U_INFO_MARKER) THEN ReadInfoLine(w, line)
  ELSE IF StartsWith(line, KODIPROP_MARKER)
  THEN [w EXCEPT !.lv.tmpChannel = ParseSinglePropertyIntoChannel(line, @, KODIPROP_MARKER)]
  ELSE IF StartsWith(line, EXTVLCOPT_MARKER)
  THEN [w EXCEPT !.lv.tmpChannel = ParseSinglePropertyIntoChannel(line, @, EXTVLCOPT_MARKER)]
  ELSE IF StartsWith(line, EXTVLCOPT_DASH_MARKER)
  THEN [w EXCEPT !.lv.tmpChannel = ParseSinglePropertyIntoChannel(line, @, EXTVLCOPT_DASH_MARKER)]
  ELSE IF StartsWith(line, M3U_GROUP_MARKER)
  THEN WithGroups(w, ReadMarkerValue(line, M3U_GROUP_MARKER))
  ELSE IF StartsWith(line, PLAYLIST_TYPE_MARKER)
  THEN [w EXCEPT !.lv.isRealTime = @ /\ ReadMarkerValue(line, PLAYLIST_TYPE_MARKER) # << "VOD" >>]
  ELSE IF IsUrlLine(line) THEN CommitEntry(w, line)
  ELSE w

(* A line without the BOM that may lead it. *)
StripBom(line) == IF StartsWith(line, BOM) THEN Tail(line) ELSE line

(* The first non-empty line, BOM stripped: the header read when it is one, else
   the line dispatched like any other. *)
ReadFirstLine(w, line) ==
  IF StartsWith(line, M3U_START_MARKER) THEN ReadHeader(w, line) ELSE Dispatch(w, line)

(* One turn of the loop on the trimmed line: skipped when empty. *)
ProcessTrimmed(w, line) ==
  IF line = <<>> THEN [w EXCEPT !.lv.line = line]
  ELSE IF w.lv.isFirstLine
       THEN ReadFirstLine([w EXCEPT !.lv.line = StripBom(line), !.lv.isFirstLine = FALSE],
                          StripBom(line))
       ELSE Dispatch([w EXCEPT !.lv.line = line], line)

(* One turn of the loop: the line std::getline delivered is noted, trimmed and
   processed. *)
ProcessLine(w, raw) == ProcessTrimmed([w EXCEPT !.read = Append(@, raw)], Trim(raw))

-----------------------------------------------------------------------------
(* The loader as a state machine *)

World ==
  [lv |-> lv, hdr |-> m_m3uHeaderStrings, channels |-> m_channels,
   groups |-> m_channelGroups, providers |-> m_providers, media |-> m_media,
   settings |-> settings, read |-> hist.lines, log |-> hist.attempts]

(* Whether the history keeps the lines read and the insertion attempts of the
   load under way. *)
Logging == hist.track = "attempts"

SetWorld(w) ==
  /\ lv' = w.lv
  /\ m_m3uHeaderStrings' = w.hdr
  /\ m_channels' = w.channels
  /\ m_channelGroups' = w.groups
  /\ m_providers' = w.providers
  /\ m_media' = w.media
  /\ settings' = w.settings
  /\ hist' = [hist EXCEPT !.lines = IF Logging THEN w.read ELSE @,
                          !.attempts = IF Logging THEN w.log ELSE @]

(* The four stores, as a reader sees them. *)
Stores ==
  [channels |-> m_channels, groups |-> m_channelGroups, providers |-> m_providers,
   media |-> m_media]

EmptyStores ==
  [channels |-> EmptyChannels, groups |-> EmptyChannelGroups, providers |-> <<>>,
   media |-> <<>>]

(* Whether the history keeps the stores of a load that ends with pc: every
   finished load ("finished"), the loads that returned true ("loaded"), none. *)
Tracked(pc) == hist.track = "finished" \/ (hist.track = "loaded" /\ pc = "loaded")

(* LoadPlayList's entry: no location, no load. *)
LoadPlayList_Enter ==
  /\ lpc.pc = "load"
  /\ lpc' = [lpc EXCEPT !.pc = IF m_m3uLocation = <<>> THEN "failed" ELSE "fetch"]
  /\ UNCHANGED << settings, pool, m_m3uLocation, m_m3uHeaderStrings, m_channels,
                  m_channelGroups, m_providers, m_media, lv, io, host, hist >>
  /\ UNCHANGED tvars

(* Whether the fetcher can serve the content of the fetch before, or another. *)
SameChoices ==
  IF io.keep /\ io.fetched THEN (IF io.changed THEN {TRUE} ELSE BOOLEAN) ELSE {FALSE}

(* FileUtils::GetCachedFileContents returns: the fetch failed, or the content is
   there and the locals are set up.  A fetcher that keeps its content (io.keep)
   serves the content of the fetch before again, or, once, a new one. *)
LoadPlayList_Fetch ==
  /\ lpc.pc = "fetch"
  /\ \E ok \in BOOLEAN, same \in SameChoices :
       IF ok
       THEN /\ lpc' = [lpc EXCEPT !.pc = "lines"]
            /\ lv' = InitialLocals(settings)
            /\ io' = [io EXCEPT !.lineNo = 0, !.same = same,
                                !.fetched = TRUE, !.changed = @ \/ (io.fetched /\ ~same),
                                !.content = <<>>,
                                !.previous = IF io.keep THEN io.content ELSE <<>>]
       ELSE /\ lpc' = [lpc EXCEPT !.pc = "failed"]
            /\ UNCHANGED << lv, io >>
  /\ UNCHANGED << settings, pool, m_m3uLocation, m_m3uHeaderStrings, m_channels,
                  m_channelGroups, m_providers, m_media, host, hist >>
  /\ UNCHANGED tvars

(* The lines std::getline can deliver next. *)
NextLines ==
  IF io.same
  THEN IF io.lineNo < Len(io.previous) THEN {io.previous[io.lineNo + 1]} ELSE {}
  ELSE pool

(* One turn of the while loop. *)
LoadPlayList_Line ==
  /\ lpc.pc = "lines"
  /\ io.lineNo < io.limit
  /\ \E raw \in NextLines :
       /\ SetWorld(ProcessLine(World, raw))
       /\ io' = [io EXCEPT !.lineNo = @ + 1,
                           !.content = IF io.keep THEN Append(@, raw) ELSE @]
  /\ UNCHANGED << pool, m_m3uLocation, lpc, host >>
  /\ UNCHANGED tvars

(* The return the code has commented out: false when nothing was loaded. *)
ReturnFalseWhenEmpty(channels, media) ==
  IF channels.list = <<>> /\ media = <<>> THEN "failed" ELSE "loaded"

(* Lines 221 to 233: what LoadPlayList returns after the loop, whatever the
   stores hold. *)
ReturnAfterLoop(channels, media) == "loaded"

(* std::getline finds the end of the content: LoadPlayList returns. *)
LoadPlayList_Return ==
  /\ lpc.pc = "lines"
  /\ io.same => io.lineNo = Len(io.previous)
  /\ lpc' = [lpc EXCEPT !.pc = ReturnAfterLoop(m_channels, m_media)]
  /\ lv' = InitialLocals(settings)
  /\ UNCHANGED << settings, pool, m_m3uLocation, m_m3uHeaderStrings, m_channels,
                  m_channelGroups, m_providers, m_media, io, host, hist >>
  /\ UNCHANGED tvars

(* A caller that takes every load for a success. *)
SucceededAlways(pc) == TRUE

(* What the callers of LoadPlayList test: it returned true. *)
LoadSucceeded(pc) == pc = "loaded"

(* Channels::ChannelsLoadFailed and ChannelGroups::ChannelGroupsLoadFailed. *)
SignalLoadFailed ==
  /\ m_channels' = [m_channels EXCEPT !.loadFailed = TRUE]
  /\ m_channelGroups' = [m_channelGroups EXCEPT !.loadFailed = TRUE]

(* Create after LoadPlayList returned. *)
Create_AfterLoad ==
  /\ lpc.caller = "Create"
  /\ lpc.pc \in {"loaded", "failed"}
  /\ IF LoadSucceeded(lpc.pc) THEN UNCHANGED << m_channels, m_channelGroups >>
     ELSE SignalLoadFailed
  /\ lpc' = [pc |-> "idle", caller |-> "Create"]
  /\ UNCHANGED << settings, pool, m_m3uLocation, m_m3uHeaderStrings, m_providers,
                  m_media, lv, io, host >>
  /\ hist' = [hist EXCEPT !.previous = IF Tracked(lpc.pc) THEN Stores' ELSE @,
                          !.lines = <<>>, !.attempts = <<>>]
  /\ UNCHANGED tvars

(* ReloadPlayList without its four Clear calls. *)
ReloadPlayList_KeepStores ==
  /\ lpc.pc = "reload"
  /\ m_m3uLocation' = settings.m3uLocation
  /\ lpc' = [lpc EXCEPT !.pc = "load"]
  /\ UNCHANGED << settings, pool, m_m3uHeaderStrings, m_channels, m_channelGroups,
                  m_providers, m_media, lv, io, host, hist >>
  /\ UNCHANGED tvars

(* ReloadPlayList with the channel store alone cleared. *)
ReloadPlayList_ClearChannelsOnly ==
  /\ lpc.pc = "reload"
  /\ m_m3uLocation' = settings.m3uLocation
  /\ m_channels' = EmptyChannels
  /\ lpc' = [lpc EXCEPT !.pc = "load"]
  /\ UNCHANGED << settings, pool, m_m3uHeaderStrings, m_channelGroups, m_providers, m_media,
                  lv, io, host, hist >>
  /\ UNCHANGED tvars

(* ReloadPlayList's first half: the location re-read, the four stores cleared. *)
ReloadPlayList_Clear ==
  /\ lpc.pc = "reload"
  /\ m_m3uLocation' = settings.m3uLocation
  /\ m_channels' = EmptyChannels
  /\ m_channelGroups' = EmptyChannelGroups
  /\ m_providers' = <<>>
  /\ m_media' = <<>>
  /\ lpc' = [lpc EXCEPT !.pc = "load"]
  /\ UNCHANGED << settings, pool, m_m3uHeaderStrings, lv, io, host, hist >>
  /\ UNCHANGED tvars

(* The four update triggers, in the order ReloadPlayList sends them. *)
UpdateTriggers ==
  << "TriggerChannelUpdate", "TriggerChannelGroupsUpdate", "TriggerProvidersUpdate",
     "TriggerRecordingUpdate" >>

(* ReloadPlayList's second half: the triggers after a load, the failure signals
   after none. *)
ReloadPlayList_AfterLoad ==
  /\ lpc.caller = "Reload"
  /\ lpc.pc \in {"loaded", "failed"}
  /\ IF LoadSucceeded(lpc.pc)
     THEN /\ host' = [host EXCEPT !.triggers = @ \o UpdateTriggers]
          /\ UNCHANGED << m_channels, m_channelGroups >>
     ELSE /\ SignalLoadFailed
          /\ UNCHANGED host
  /\ lpc' = [pc |-> "idle", caller |-> "Reload"]
  /\ UNCHANGED << settings, pool, m_m3uLocation, m_m3uHeaderStrings, m_providers,
                  m_media, lv, io >>
  /\ hist' = [hist EXCEPT !.previous = IF Tracked(lpc.pc) THEN Stores' ELSE @,
                          !.lines = <<>>, !.attempts = <<>>]
  /\ UNCHANGED tvars

-----------------------------------------------------------------------------
(* Configurations and playlists *)

LOCATION == << "playlist.m3u" >>

(* A configuration that admits everything: media and VOD as recordings on. *)
LenientSettings ==
  [m3uLocation |-> LOCATION, tvgUrl |-> <<>>, mediaEnabled |-> TRUE,
   showVodAsRecordings |-> TRUE, numberByOrderOnly |-> FALSE, tvGroupsOnly |-> FALSE,
   radioGroupsOnly |-> FALSE, blockedGroups |-> {}, catchupDays |-> 5,
   catchupCorrectionSecs |-> 0, defaultProviderName |-> <<>>,
   useLocalLogosOnly |-> FALSE, refreshMode |-> "DISABLED", refreshIntervalMins |-> 1,
   refreshHour |-> 1, catchupEnabled |-> TRUE, catchupOnlyOnFinishedProgrammes |-> FALSE]

(* A configuration that requires group membership of TV channels. *)
StrictSettings ==
  [LenientSettings EXCEPT !.tvGroupsOnly = TRUE, !.mediaEnabled = FALSE,
                          !.blockedGroups = {<< "Adult" >>}]

(* The configurations of catchup: enabled or not, for every programme or for
   the finished ones only. *)
CatchupSettings ==
  {[LenientSettings EXCEPT !.catchupEnabled = e, !.catchupOnlyOnFinishedProgrammes = f] :
     e \in BOOLEAN, f \in BOOLEAN}

(* A configuration with media on that shows VOD entries as channels. *)
VodAsChannelsSettings == [LenientSettings EXCEPT !.showVodAsRecordings = FALSE]

Line_Header == << M3U_START_MARKER >>

Line_HeaderVod ==
  << M3U_START_MARKER, SPACE, CATCHUP, QUOTE, "vod", QUOTE, SPACE, CATCHUP_DAYS, QUOTE, "3",
     QUOTE, SPACE, CATCHUP_SOURCE, QUOTE, "S", QUOTE, SPACE, TVG_URL_MARKER, QUOTE, "U1",
     QUOTE >>

Line_HeaderUrlOther == << BOM, M3U_START_MARKER, SPACE, TVG_URL_OTHER_MARKER, QUOTE, "U2", QUOTE >>

Line_Info ==
  << M3U_INFO_MARKER, COLON, "-1", SPACE, TVG_INFO_ID_MARKER, QUOTE, "c1", QUOTE, SPACE,
     TVG_INFO_CHNO_MARKER, QUOTE, "7", QUOTE, SPACE, GROUP_NAME_MARKER, QUOTE, "News", QUOTE,
     COMMA, "One" >>

Line_InfoPlain == << M3U_INFO_MARKER, COLON, "-1", COMMA, "Two" >>

Line_InfoMedia ==
  << M3U_INFO_MARKER, COLON, "-1", SPACE, MEDIA_DIR, QUOTE, "Movies", QUOTE, SPACE,
     MEDIA_SIZE, QUOTE, "5", QUOTE, COMMA, "Film" >>

(* Malformed: no colon; no comma (and a media marker); the comma before the colon. *)
Line_InfoNoColon == << M3U_INFO_MARKER, SPACE, "-1", COMMA, "Bad" >>

Line_InfoNoComma == << M3U_INFO_MARKER, COLON, "-1", SPACE, MEDIA, "true", SPACE, "Bad" >>

Line_InfoCommaFirst == << M3U_INFO_MARKER, COMMA, "-1", COLON, "Bad" >>

Line_Group == << M3U_GROUP_MARKER, "Sports" >>

Line_Vod == << PLAYLIST_TYPE_MARKER, "VOD" >>

Line_KodiProp == << KODIPROP_MARKER, "InputStreamAddon", EQUALS, "adaptive" >>

Line_KodiClass == << KODIPROP_MARKER, "inputstreamclass", EQUALS, "ffmpeg" >>

Line_KodiAny == << KODIPROP_MARKER, "mimetype", EQUALS, "video", EQUALS, "mp4" >>

Line_KodiNoEquals == << KODIPROP_MARKER, "mimetype" >>

Line_VlcUserAgent ==
  << EXTVLCOPT_MARKER, "HTTP-User-Agent", EQUALS, "Mozilla", SPACE, "Firefox" >>

Line_VlcReferrer == << EXTVLCOPT_MARKER, "http-referrer", EQUALS, "R" >>

Line_VlcProgram == << EXTVLCOPT_MARKER, "program", EQUALS, "1" >>

Line_VlcReconnect == << EXTVLCOPT_MARKER, "http-reconnect", EQUALS, "true" >>

Line_VlcOther == << EXTVLCOPT_MARKER, "network-caching", EQUALS, "1" >>

Line_DashReconnect == << EXTVLCOPT_DASH_MARKER, "http-reconnect", EQUALS, "true" >>

Line_DashUserAgent == << EXTVLCOPT_DASH_MARKER, "http-user-agent", EQUALS, "X" >>

Line_DashNoEquals == << EXTVLCOPT_DASH_MARKER, "http-reconnect" >>

(* The #EXTINF line with the channel number attributes given: tvg-chno and
   channel-number, each a sequence of tokens, empty for none. *)
InfoLineNumbered(chno, other, name) ==
  << M3U_INFO_MARKER, COLON, "-1" >>
    \o (IF chno = <<>> THEN <<>> ELSE << SPACE, TVG_INFO_CHNO_MARKER, QUOTE >> \o chno \o << QUOTE >>)
    \o (IF other = <<>> THEN <<>>
        ELSE << SPACE, CHANNEL_NUMBER_MARKER, QUOTE >> \o other \o << QUOTE >>)
    \o << COMMA, name >>

Line_Comment == << HASH, "comment" >>

Line_Blank == << SPACE >>

Line_Url1 == << "http://h/1" >>

Line_Url2 == << SPACE, "http://h/2", SPACE >>

(* An attribute of a header or #EXTINF line: blank, marker, quoted value; no
   text when there is no value. *)
Attr(markerName, value) ==
  IF value = "" THEN <<>> ELSE << SPACE, markerName, QUOTE, value, QUOTE >>

(* The #EXTM3U line with the catchup attributes h gives. *)
HeaderLineWith(h) ==
  << M3U_START_MARKER >> \o Attr(CATCHUP, h.catchup) \o Attr(CATCHUP_DAYS, h.days)
    \o Attr(CATCHUP_SOURCE, h.source)

(* The #EXTINF line with the catchup attributes and the name a gives. *)
InfoLineWith(a) ==
  << M3U_INFO_MARKER, COLON, "-1" >> \o Attr(CATCHUP, a.catchup) \o Attr(CATCHUP_DAYS, a.days)
    \o Attr(CATCHUP_SIPTV, a.timeshift) \o Attr(TVG_INFO_REC, a.rec)
    \o Attr(CATCHUP_SOURCE, a.source) \o << COMMA >> \o a.name

(* The catchup attributes of headers and of #EXTINF lines. *)
HeaderAttrs == [catchup : {"", "xc", "vod"}, days : {"", "3"}, source : {"", "S"}]

InfoAttrs ==
  [catchup : {"", "VOD", "fs", "foo"}, days : {"", "2"}, timeshift : {"", "0", "7"},
   rec : {"", "1"}, source : {"", "own"}, name : {<< "One" >>, << "* ", "Star" >>}]

(* The pairs of header and #EXTINF attributes of the parse specification: every
   combination of the attributes the catchup days and source depend on, and
   every combination of those the catchup flags depend on. *)
ParseCases ==
  {c \in HeaderAttrs \X InfoAttrs :
     \/ /\ c[2].rec = "" /\ c[2].name = << "One" >>
        /\ c[2].catchup \in {"", "VOD"} /\ c[2].timeshift \in {"", "7"}
     \/ /\ c[1].days = "" /\ c[1].source = ""
        /\ c[2].days = "" /\ c[2].source = ""}

(* #EXTINF lines without a tvg-id: no leading integer, tvg-ID, an empty tvg-id. *)
Line_InfoNoInteger ==
  << M3U_INFO_MARKER, COLON, TVG_INFO_NAME_MARKER, QUOTE, "N", QUOTE, COMMA, "Three" >>

Line_InfoIdUpperCase ==
  << M3U_INFO_MARKER, COLON, "-1", SPACE, TVG_INFO_ID_MARKER_UC, QUOTE, "u1", QUOTE, COMMA, "Four" >>

Line_InfoIdEmpty ==
  << M3U_INFO_MARKER, COLON, SPACE, "7", SPACE, TVG_INFO_ID_MARKER, QUOTE, QUOTE, COMMA, "Five" >>

(* #EXTINF lines with commas: in a quoted value, in the name, with no quote,
   with text between the last quote and the comma, with a blank there, and with
   quotes in the name. *)
Line_InfoCommaInValue ==
  << M3U_INFO_MARKER, COLON, "-1", SPACE, TVG_INFO_NAME_MARKER, QUOTE, "A", COMMA, "B", QUOTE,
     COMMA, "C" >>

Line_InfoCommaInName ==
  << M3U_INFO_MARKER, COLON, "-1", SPACE, TVG_INFO_NAME_MARKER, QUOTE, "A", QUOTE, COMMA,
     SPACE, "C", COMMA, "D", SPACE >>

Line_InfoNoQuote == << M3U_INFO_MARKER, COLON, "-1", COMMA, "Name", COMMA, "More" >>

Line_InfoTextAfterQuote ==
  << M3U_INFO_MARKER, COLON, "-1", SPACE, TVG_INFO_NAME_MARKER, QUOTE, "A", QUOTE, SPACE, "x",
     COMMA, "C", COMMA, "D" >>

Line_InfoBlankAfterQuote ==
  << M3U_INFO_MARKER, COLON, "-1", SPACE, TVG_INFO_NAME_MARKER, QUOTE, "A", COMMA, "B", QUOTE,
     SPACE, COMMA, "C" >>

Line_InfoQuoteInName ==
  << M3U_INFO_MARKER, COLON, "-1", SPACE, TVG_INFO_ID_MARKER, QUOTE, "c1", QUOTE, COMMA, "The",
     QUOTE, "Best", QUOTE, COMMA, "Show" >>

(* The #EXTINF lines of the parse specification that are about the tvg-id and
   the name. *)
NameAndIdLines ==
  {Line_Info, Line_InfoPlain, Line_InfoNoInteger, Line_InfoIdUpperCase, Line_InfoIdEmpty,
   Line_InfoCommaInValue, Line_InfoCommaInName, Line_InfoNoQuote, Line_InfoTextAfterQuote,
   Line_InfoBlankAfterQuote, Line_InfoQuoteInName}

(* #EXTINF attributes that get the catchup flags in different ways: by a token,
   by the siptv timeshift, by the xeev name rule, and not at all. *)
NoInfoAttrs ==
  [catchup |-> "", days |-> "", timeshift |-> "", rec |-> "", source |-> "",
   name |-> << "One" >>]

FlagWays ==
  {[NoInfoAttrs EXCEPT !.catchup = "VOD"], [NoInfoAttrs EXCEPT !.timeshift = "7"],
   [NoInfoAttrs EXCEPT !.catchup = "foo", !.name = << "* ", "Star" >>], NoInfoAttrs}

(* The playlists of the parse specification: a header, an #EXTINF line and a
   URL; and, under the plain and the xeev header, two #EXTINF lines and a URL. *)
ParsePools ==
  {{HeaderLineWith(c[1]), InfoLineWith(c[2]), Line_Url1} : c \in ParseCases}
  \cup {{Line_Header, line, Line_Url1} : line \in NameAndIdLines}
  \cup {{HeaderLineWith([catchup |-> c, days |-> "", source |-> ""]), InfoLineWith(a),
         InfoLineWith(b), Line_Url1} : a, b \in FlagWays, c \in {"", "xc"}}

(* The lines of the loader's specification. *)
LoaderPool ==
  {Line_Header, Line_HeaderVod, Line_HeaderUrlOther, Line_Info, Line_InfoPlain,
   Line_InfoMedia, Line_InfoNoColon, Line_InfoNoComma, Line_InfoCommaFirst, Line_Group,
   Line_Vod, Line_KodiProp, Line_Comment, Line_Blank, Line_Url1, Line_Url2}

-----------------------------------------------------------------------------
(* Initial states *)

Hosts == {"h1"}

NoHeaderStrings == [m_catchup |-> <<>>, m_catchupDays |-> <<>>, m_catchupSource |-> <<>>]

IdleRequest == [pc |-> "idle", op |-> "none"]

(* The aggregate as constructed (the constructor clears the stores), on top of a
   configuration of cfgs and a fetcher that serves the lines of one of pools. *)
InitOn(cfgs, pools, limit, loads, hs, keep, track) ==
  /\ settings \in cfgs
  /\ pool \in pools
  /\ m_m3uLocation = <<>>
  /\ m_m3uHeaderStrings = NoHeaderStrings
  /\ m_channels = EmptyChannels
  /\ m_channelGroups = EmptyChannelGroups
  /\ m_providers = <<>>
  /\ m_media = <<>>
  /\ lpc = [pc |-> "idle", caller |-> "none"]
  /\ lv = InitialLocals(settings)
  /\ io = [lineNo |-> 0, limit |-> limit, keep |-> keep, same |-> FALSE, fetched |-> FALSE,
           changed |-> FALSE,
           content |-> <<>>, previous |-> <<>>]
  /\ host = [triggers |-> <<>>]
  /\ hist = [loads |-> 0, limit |-> loads, track |-> track, previous |-> EmptyStores,
             lines |-> <<>>, attempts |-> <<>>]
  /\ m_mutex = "none"
  /\ m_running = FALSE
  /\ m_reloadChannelsGroupsAndEPG = FALSE
  /\ life = [create |-> "no", dtor |-> "no", ticks |-> 0, admitted |-> 0]
  /\ proc = [pc |-> "none", refreshTimer |-> 0, lastRefreshHour |-> 0, hour |-> 0]
  /\ req = [h \in hs |-> IdleRequest]
  /\ clock = [hour |-> 0, moved |-> FALSE]
  /\ m_currentChannel = EmptyChannel

(* The same, on a fetcher that serves lines of p. *)
InitWith(cfgs, p, limit, loads, hs, keep, track) ==
  InitOn(cfgs, {p}, limit, loads, hs, keep, track)

-----------------------------------------------------------------------------
(* The loader's callers *)

(* Create, lines 69 to 75: the stores and the loader initialised, LoadPlayList
   called. *)
CallCreateLoad ==
  /\ m_m3uLocation' = settings.m3uLocation
  /\ lpc' = [pc |-> "load", caller |-> "Create"]
  /\ hist' = [hist EXCEPT !.loads = @ + 1]
  /\ UNCHANGED << settings, pool, m_m3uHeaderStrings, m_channels, m_channelGroups,
                  m_providers, m_media, lv, io, host >>

(* Process, line 152: ReloadPlayList called. *)
CallReloadPlayList ==
  /\ lpc' = [pc |-> "reload", caller |-> "Reload"]
  /\ hist' = [hist EXCEPT !.loads = @ + 1]
  /\ UNCHANGED << settings, pool, m_m3uLocation, m_m3uHeaderStrings, m_channels,
                  m_channelGroups, m_providers, m_media, lv, io, host >>

(* Settings::SetValue, for the one setting the loads depend on: the location. *)
SetValue(cfg, location) == [cfg EXCEPT !.m3uLocation = location]

(* The loader alone: one thread that creates the add-on, then changes settings
   and reloads. *)
Solo_Create ==
  /\ lpc.pc = "idle" /\ hist.loads = 0
  /\ CallCreateLoad
  /\ UNCHANGED tvars

Solo_SetSetting ==
  /\ lpc.pc = "idle" /\ hist.loads \in 1..(hist.limit - 1)
  /\ \E location \in {<<>>, LOCATION} :
       /\ location # settings.m3uLocation
       /\ settings' = SetValue(settings, location)
  /\ UNCHANGED << pool, m_m3uLocation, m_m3uHeaderStrings, m_channels, m_channelGroups,
                  m_providers, m_media, lpc, lv, io, host, hist >>
  /\ UNCHANGED tvars

Solo_Reload ==
  /\ lpc.pc = "idle" /\ hist.loads \in 1..(hist.limit - 1)
  /\ CallReloadPlayList
  /\ UNCHANGED tvars

LoaderStep ==
  \/ LoadPlayList_Enter
  \/ LoadPlayList_Fetch
  \/ LoadPlayList_Line
  \/ LoadPlayList_Return
  \/ Create_AfterLoad
  \/ ReloadPlayList_Clear
  \/ ReloadPlayList_AfterLoad

-----------------------------------------------------------------------------
(* PVRIptvData: Create, the refresh thread, the destructor *)

(* The end of a lock_guard's scope in Process: the mutex released. *)
Process_Release == "none"

(* Create, lines 34 to 75: the mutex taken, LoadPlayList called. *)
Create_Begin ==
  /\ life.create = "no" /\ life.dtor = "no"
  /\ m_mutex = "none"
  /\ m_mutex' = "main"
  /\ life' = [life EXCEPT !.create = "running"]
  /\ CallCreateLoad
  /\ UNCHANGED << m_running, m_reloadChannelsGroupsAndEPG, proc, req, clock, m_currentChannel >>

(* Create, lines 80 to 88: the refresh thread started (its locals set up, lines
   125 to 127), the mutex released. *)
Create_Return ==
  /\ life.create = "running"
  /\ lpc = [pc |-> "idle", caller |-> "Create"]
  /\ m_running' = TRUE
  /\ proc' = [pc |-> "head", refreshTimer |-> 0, lastRefreshHour |-> settings.refreshHour,
              hour |-> 0]
  /\ m_mutex' = "none"
  /\ life' = [life EXCEPT !.create = "done"]
  /\ UNCHANGED << m_reloadChannelsGroupsAndEPG, req, clock, m_currentChannel >>
  /\ UNCHANGED lvars

(* Process, line 129: the loop's test. *)
Process_Head ==
  /\ proc.pc = "head"
  /\ proc' = [proc EXCEPT !.pc = IF m_running THEN "sleep" ELSE "exited"]
  /\ UNCHANGED << m_mutex, m_running, m_reloadChannelsGroupsAndEPG, life, req, clock, m_currentChannel >>
  /\ UNCHANGED lvars

(* The seconds the wall clock can have moved over one sleep; time is no longer
   counted once the loads of the model are used up. *)
Elapsed == IF hist.loads < hist.limit THEN {30, 60} ELSE {0}

(* refreshTimer after a tick, kept at the interval once it reached it. *)
TimerAfter(timer, elapsed, cfg) ==
  IF timer + elapsed >= cfg.refreshIntervalMins * 60 THEN cfg.refreshIntervalMins * 60
  ELSE timer + elapsed

(* The tick's test without the comparison with the hour of the tick before. *)
TickAsksReloadAllOfTheHour(cfg, timer, lastRefreshHour, hour) ==
  \/ cfg.refreshMode = "REPEATED_REFRESH" /\ timer >= cfg.refreshIntervalMins * 60
  \/ cfg.refreshMode = "ONCE_PER_DAY" /\ hour = cfg.refreshHour

(* Lines 138 to 144: whether the tick asks for a reload. *)
TickAsksReload(cfg, timer, lastRefreshHour, hour) ==
  \/ cfg.refreshMode = "REPEATED_REFRESH" /\ timer >= cfg.refreshIntervalMins * 60
  \/ cfg.refreshMode = "ONCE_PER_DAY" /\ lastRefreshHour # hour /\ hour = cfg.refreshHour

(* Process, lines 131 to 144: the sleep between ticks ends, the timer and the
   hour are read, the reload flag is set when a refresh is due. *)
Process_Tick ==
  /\ proc.pc = "sleep"
  /\ \E elapsed \in Elapsed :
       /\ proc' = [proc EXCEPT !.pc = "lock",
                               !.refreshTimer = TimerAfter(@, elapsed, settings),
                               !.hour = clock.hour]
       /\ m_reloadChannelsGroupsAndEPG' =
            (m_reloadChannelsGroupsAndEPG
             \/ TickAsksReload(settings, TimerAfter(proc.refreshTimer, elapsed, settings),
                               proc.lastRefreshHour, clock.hour))
  /\ life' = [life EXCEPT !.ticks = IF m_running \/ @ = 2 THEN @ ELSE @ + 1]
  /\ UNCHANGED << m_mutex, m_running, req, clock, m_currentChannel >>
  /\ UNCHANGED lvars

(* The reload admitted on the flag alone. *)
AdmittedOnFlag(running, reload) == reload

(* Line 147: whether the reload is admitted. *)
ReloadAdmitted(running, reload) == running /\ reload

(* Process, lines 146 to 149 and 158: the mutex taken; a reload admitted, and
   the thread goes to sleep with the mutex held, or the hour noted and the
   mutex released. *)
Process_Lock ==
  /\ proc.pc = "lock"
  /\ m_mutex = "none"
  /\ IF ReloadAdmitted(m_running, m_reloadChannelsGroupsAndEPG)
     THEN /\ m_mutex' = "proc"
          /\ proc' = [proc EXCEPT !.pc = "reloadSleep"]
          /\ life' = [life EXCEPT !.admitted = IF m_running \/ @ = 2 THEN @ ELSE @ + 1]
     ELSE /\ m_mutex' = Process_Release
          /\ proc' = [proc EXCEPT !.pc = "head", !.lastRefreshHour = proc.hour, !.hour = 0]
          /\ UNCHANGED life
  /\ UNCHANGED << m_running, m_reloadChannelsGroupsAndEPG, req, clock, m_currentChannel >>
  /\ UNCHANGED lvars

(* Process, lines 149 to 152: the sleep under the mutex ends, ReloadPlayList is
   called. *)
Process_Reload ==
  /\ proc.pc = "reloadSleep"
  /\ proc' = [proc EXCEPT !.pc = "reloading"]
  /\ CallReloadPlayList
  /\ UNCHANGED << m_mutex, m_running, m_reloadChannelsGroupsAndEPG, life, req, clock, m_currentChannel >>

(* Process, lines 153 to 158: after the reload the flag and the timer are reset,
   the hour noted, the mutex released. *)
Process_AfterReload ==
  /\ proc.pc = "reloading"
  /\ lpc = [pc |-> "idle", caller |-> "Reload"]
  /\ m_reloadChannelsGroupsAndEPG' = FALSE
  /\ proc' = [proc EXCEPT !.pc = "head", !.refreshTimer = 0, !.lastRefreshHour = proc.hour,
                          !.hour = 0]
  /\ m_mutex' = Process_Release
  /\ UNCHANGED << m_running, life, req, clock, m_currentChannel >>
  /\ UNCHANGED lvars

ProcessStep ==
  \/ Process_Head
  \/ Process_Tick
  \/ Process_Lock
  \/ Process_Reload
  \/ Process_AfterReload

(* The destructor, line 165: the thread told to stop.  The host destroys the
   add-on when none of its threads is inside a call. *)
Destructor_Stop ==
  /\ life.create = "done" /\ life.dtor = "no"
  /\ \A h \in DOMAIN req : req[h].pc = "idle"
  /\ m_running' = FALSE
  /\ life' = [life EXCEPT !.dtor = "joining"]
  /\ UNCHANGED << m_mutex, m_reloadChannelsGroupsAndEPG, proc, req, clock, m_currentChannel >>
  /\ UNCHANGED lvars

(* The destructor going on to its clear without the join of lines 166 and 167. *)
Destructor_NoJoin ==
  /\ life.dtor = "joining"
  /\ life' = [life EXCEPT !.dtor = "locking"]
  /\ UNCHANGED << m_mutex, m_running, m_reloadChannelsGroupsAndEPG, proc, req, clock, m_currentChannel >>
  /\ UNCHANGED lvars

(* The destructor, lines 166 to 169: join returns once Process has returned. *)
Destructor_Join ==
  /\ life.dtor = "joining"
  /\ proc.pc = "exited"
  /\ life' = [life EXCEPT !.dtor = "locking"]
  /\ UNCHANGED << m_mutex, m_running, m_reloadChannelsGroupsAndEPG, proc, req, clock, m_currentChannel >>
  /\ UNCHANGED lvars

(* The destructor, lines 169 to 174: under the mutex the channel, group and
   provider stores are cleared. *)
Destructor_Clear ==
  /\ life.dtor = "locking"
  /\ m_mutex = "none"
  /\ m_channels' = EmptyChannels
  /\ m_channelGroups' = EmptyChannelGroups
  /\ m_providers' = <<>>
  /\ life' = [life EXCEPT !.dtor = "done"]
  /\ UNCHANGED << settings, pool, m_m3uLocation, m_m3uHeaderStrings, m_media, lpc, lv, io,
                  host, hist >>
  /\ UNCHANGED << m_mutex, m_running, m_reloadChannelsGroupsAndEPG, proc, req, clock, m_currentChannel >>

DestructorStep == Destructor_Stop \/ Destructor_Join \/ Destructor_Clear

(* Whether the history keeps that the hour has changed. *)
NotingHours == hist.track = "hours"

(* The wall clock moves to the next hour. *)
Clock_Advance ==
  /\ life.create = "done" /\ life.dtor = "no"
  /\ hist.loads < hist.limit
  /\ clock' = [clock EXCEPT !.hour = (@ + 1) % (MaxHour + 1), !.moved = @ \/ NotingHours]
  /\ UNCHANGED << m_mutex, m_running, m_reloadChannelsGroupsAndEPG, life, proc, req, m_currentChannel >>
  /\ UNCHANGED lvars

-----------------------------------------------------------------------------
(* PVRIptvData: the operations the host's threads call *)

(* GetChannels without its lock_guard. *)
LocksButGetChannels(op) ==
  op \in {"GetProviders", "GetChannelsAmount", "GetChannelGroupsAmount", "GetChannelGroups",
          "GetChannelGroupMembers", "GetEPGForChannel", "IsEPGTagPlayable",
          "GetRecordingsAmount", "GetRecordings", "SetSetting"}

(* The operations that begin with a lock_guard on m_mutex (GetProviders and
   GetRecordings take it around the store access; IsEPGTagPlayable takes it
   inside GetChannel). *)
LockingOps ==
  {"GetProviders", "GetChannelsAmount", "GetChannels", "GetChannelGroupsAmount",
   "GetChannelGroups", "GetChannelGroupMembers", "GetEPGForChannel", "IsEPGTagPlayable",
   "GetRecordingsAmount", "GetRecordings", "SetSetting"}

(* The operations that go to a store with no lock_guard. *)
LockFreeOps == {"GetProvidersAmount", "GetRecordingStreamProperties"}

Ops == LockingOps \cup LockFreeOps

(* SetSetting without its lock_guard. *)
LocksButSetSetting(op) == op \in LockingOps \ {"SetSetting"}

(* Whether op takes m_mutex before its access. *)
Locks(op) == op \in LockingOps

(* The store an operation goes to. *)
StoreOf(op) ==
  CASE op \in {"GetProvidersAmount", "GetProviders"} -> "providers"
    [] op \in {"GetChannelsAmount", "GetChannels", "IsEPGTagPlayable"} -> "channels"
    [] op \in {"GetChannelGroupsAmount", "GetChannelGroups", "GetChannelGroupMembers"} -> "groups"
    [] op \in {"GetRecordingsAmount", "GetRecordings", "GetRecordingStreamProperties"} -> "media"
    [] op = "GetEPGForChannel" -> "epg"
    [] OTHER -> "settings"

(* A host thread calls an operation: it waits for the mutex when the operation
   takes it, else it is at the store at once.  No call begins before Create
   returned or after the destructor began. *)
Request_Call(h) ==
  /\ life.create = "done" /\ life.dtor = "no"
  /\ req[h].pc = "idle"
  /\ \E op \in Ops :
       /\ op = "SetSetting" => hist.loads < hist.limit
       /\ req' = [req EXCEPT ![h] = [pc |-> IF Locks(op) THEN "enter" ELSE "access",
                                     op |-> op]]
  /\ UNCHANGED << m_mutex, m_running, m_reloadChannelsGroupsAndEPG, life, proc, clock, m_currentChannel >>
  /\ UNCHANGED lvars

(* The lock_guard's constructor returns. *)
Request_Lock(h) ==
  /\ req[h].pc = "enter"
  /\ m_mutex = "none"
  /\ m_mutex' = h
  /\ req' = [req EXCEPT ![h].pc = "access"]
  /\ UNCHANGED << m_running, m_reloadChannelsGroupsAndEPG, life, proc, clock, m_currentChannel >>
  /\ UNCHANGED lvars

(* Where an operation is after its access: IsEPGTagPlayable goes on to the EPG
   entry of the tag when the channel ignores the catchup days (lines 345 to
   349), the others return. *)
AfterAccess(op, ignoreCatchupDays) ==
  IF op = "IsEPGTagPlayable" /\ ignoreCatchupDays THEN "lookup" ELSE "idle"

(* The access of a reading operation, and its lock_guard's end. *)
Request_Read(h) ==
  /\ req[h].pc = "access"
  /\ req[h].op # "SetSetting"
  /\ \E ignoreCatchupDays \in BOOLEAN :
       req' = [req EXCEPT ![h] =
                 IF AfterAccess(req[h].op, ignoreCatchupDays) = "idle" THEN IdleRequest
                 ELSE [@ EXCEPT !.pc = "lookup"]]
  /\ m_mutex' = IF m_mutex = h THEN "none" ELSE m_mutex
  /\ UNCHANGED << m_running, m_reloadChannelsGroupsAndEPG, life, proc, clock, m_currentChannel >>
  /\ UNCHANGED lvars

(* IsEPGTagPlayable, line 349: the catchup controller's GetEPGEntry, called
   with no lock_guard. *)
Request_Lookup(h) ==
  /\ req[h].pc = "lookup"
  /\ req' = [req EXCEPT ![h] = IdleRequest]
  /\ UNCHANGED << m_mutex, m_running, m_reloadChannelsGroupsAndEPG, life, proc, clock, m_currentChannel >>
  /\ UNCHANGED lvars

(* SetSetting, lines 444 to 451: under the mutex the reload flag is set and the
   value stored. *)
SetSetting(h) ==
  /\ req[h].pc = "access"
  /\ req[h].op = "SetSetting"
  /\ m_reloadChannelsGroupsAndEPG' = TRUE
  /\ \E location \in {<<>>, LOCATION} : settings' = SetValue(settings, location)
  /\ req' = [req EXCEPT ![h] = IdleRequest]
  /\ m_mutex' = "none"
  /\ UNCHANGED << pool, m_m3uLocation, m_m3uHeaderStrings, m_channels, m_channelGroups,
                  m_providers, m_media, lpc, lv, io, host, hist >>
  /\ UNCHANGED << m_running, life, proc, clock, m_currentChannel >>

RequestStep ==
  \E h \in DOMAIN req :
    \/ Request_Call(h)
    \/ Request_Lock(h)
    \/ Request_Read(h)
    \/ Request_Lookup(h)
    \/ SetSetting(h)

-----------------------------------------------------------------------------
(* PVRIptvData::IsEPGTagPlayable *)

SecondsPerDay == 86400

(* Channel::IsCatchupSupported. *)
IsCatchupSupported(channel) == channel.hasCatchup

(* Channel::IgnoreCatchupDays. *)
IgnoreCatchupDays(channel) == channel.catchupDays = IGNORE_CATCHUP_DAYS

(* Channel::GetCatchupDaysInSeconds. *)
GetCatchupDaysInSeconds(channel) == channel.catchupDays * SecondsPerDay

(* GetChannel by unique id, lines 258 to 263: under the mutex, the first channel
   of the store with the id copied out; a channel as constructed when there is
   none. *)
GetChannel(channels, uniqueChannelId) ==
  LET same == {i \in 1..Len(channels.list) : channels.list[i].uniqueId = uniqueChannelId}
  IN IF same = {} THEN [found |-> FALSE, channel |-> EmptyChannel]
     ELSE [found |-> TRUE,
           channel |-> channels.list[CHOOSE i \in same : \A j \in same : i <= j]]

(* What CatchupController::GetEPGEntry can return for a channel and a start
   time: no entry, an entry without a catchup id, an entry with one. *)
NoEpgEntry == [entry |-> FALSE, catchupId |-> <<>>]

EpgEntries ==
  {NoEpgEntry, [entry |-> TRUE, catchupId |-> <<>>], [entry |-> TRUE, catchupId |-> << "cid" >>]}

(* Lines 347 to 350: hasCatchupId. *)
HasCatchupId(epgEntry) == epgEntry.entry /\ epgEntry.catchupId # <<>>

(* Lines 341 and 342: bIsPlayable before the days are looked at. *)
FoundAndSupported(cfg, got) ==
  got.found /\ cfg.catchupEnabled /\ IsCatchupSupported(got.channel)

(* The day window with its old end left out. *)
PlayableOfOpenOldEnd(cfg, got, tag, now, epgEntry) ==
  IF IgnoreCatchupDays(got.channel)
  THEN FoundAndSupported(cfg, got) /\ HasCatchupId(epgEntry)
  ELSE /\ FoundAndSupported(cfg, got)
       /\ tag.startTime < now
       /\ tag.startTime > now - GetCatchupDaysInSeconds(got.channel)
       /\ (~cfg.catchupOnlyOnFinishedProgrammes \/ tag.endTime < now)

(* Lines 344 to 361: bIsPlayable, from the channel GetChannel gave. *)
PlayableOf(cfg, got, tag, now, epgEntry) ==
  IF IgnoreCatchupDays(got.channel)
  THEN FoundAndSupported(cfg, got) /\ HasCatchupId(epgEntry)
  ELSE /\ FoundAndSupported(cfg, got)
       /\ tag.startTime < now
       /\ tag.startTime >= now - GetCatchupDaysInSeconds(got.channel)
       /\ (~cfg.catchupOnlyOnFinishedProgrammes \/ tag.endTime < now)

(* IsEPGTagPlayable, lines 333 to 364: the error returned and bIsPlayable,
   which is left as the caller passed it when catchup is not enabled. *)
IsEPGTagPlayable(cfg, channels, tag, now, epgEntry, bIsPlayable) ==
  IF ~cfg.catchupEnabled
  THEN [ret |-> "PVR_ERROR_NOT_IMPLEMENTED", bIsPlayable |-> bIsPlayable]
  ELSE [ret |-> "PVR_ERROR_NO_ERROR",
        bIsPlayable |-> PlayableOf(cfg, GetChannel(channels, tag.uniqueChannelId), tag, now,
                                   epgEntry)]

(* std::time(nullptr) at the call. *)
Now == 10 * SecondsPerDay

(* The start times of tags: around now, and around two days before now. *)
StartTimes == {Now - d * SecondsPerDay + k : d \in {0, 2}, k \in {-1, 0, 1}}

(* The end times of tags: around now. *)
EndTimes == {Now - 1, Now, Now + 1}

(* A unique id no channel has. *)
NoSuchChannel == << "none" >>

(* The EPG tags the host can ask about: of a channel of the store or of none,
   ending no earlier than they start. *)
Tags(channels) ==
  {tag \in [uniqueChannelId : {channels.list[i].uniqueId : i \in 1..Len(channels.list)}
                                \cup {NoSuchChannel},
            startTime : StartTimes, endTime : EndTimes] : tag.startTime <= tag.endTime}

(* The host asks whether a tag is playable, between loads: the call and what it
   gave are noted as the host thread's request until the host has the answer. *)
Solo_IsEPGTagPlayable ==
  /\ lpc.pc = "idle" /\ hist.loads >= 1
  /\ \E h \in DOMAIN req, tag \in Tags(m_channels), epgEntry \in EpgEntries, b \in BOOLEAN :
       /\ req[h].pc = "idle"
       /\ req' = [req EXCEPT ![h] =
                    [pc |-> "returned", op |-> "IsEPGTagPlayable", tag |-> tag, now |-> Now,
                     epgEntry |-> epgEntry, before |-> b,
                     out |-> IsEPGTagPlayable(settings, m_channels, tag, Now, epgEntry, b)]]
  /\ UNCHANGED << m_mutex, m_running, m_reloadChannelsGroupsAndEPG, life, proc, clock, m_currentChannel >>
  /\ UNCHANGED lvars

(* The host has the answer of its request. *)
Solo_Answered ==
  /\ \E h \in DOMAIN req :
       /\ req[h].pc = "returned"
       /\ req' = [req EXCEPT ![h] = IdleRequest]
  /\ UNCHANGED << m_mutex, m_running, m_reloadChannelsGroupsAndEPG, life, proc, clock, m_currentChannel >>
  /\ UNCHANGED lvars

-----------------------------------------------------------------------------
(* PVRIptvData::GetChannelStreamProperties and GetEPGTagStreamProperties *)

StreamOps == {"GetChannelStreamProperties", "GetEPGTagStreamProperties"}

(* The lines of an operation that read m_currentChannel after the lookup, in
   the order they run (312 stands for the call of line 312 or of line 317). *)
UseLines(op) ==
  IF op = "GetChannelStreamProperties" THEN << 225, 233, 235, 239, 241 >>
  ELSE << 310, 312, 320, 323 >>

(* The reading lines a call can pass without running them: line 239 runs when
   the catchup URL is empty, line 310 reads the channel when the setting
   CatchupPlayEpgAsLive is on, line 323 runs when the catchup URL is not
   empty. *)
OptionalUses == {239, 310, 323}

(* The reading lines a call that has run the first `at` of them can run next. *)
NextUses(op, at) ==
  {k \in (at + 1)..Len(UseLines(op)) :
     \A j \in (at + 1)..(k - 1) : UseLines(op)[j] \in OptionalUses}

(* The ids the host can ask about: of a channel of the store, or of none. *)
StreamIds(channels) ==
  {channels.list[i].uniqueId : i \in 1..Len(channels.list)} \cup {NoSuchChannel}

(* A host thread calls one of the two operations for a channel, between loads. *)
Stream_Call(h) ==
  /\ lpc.pc = "idle" /\ hist.loads >= 1
  /\ req[h].pc = "idle"
  /\ \E op \in StreamOps, uniqueChannelId \in StreamIds(m_channels) :
       req' = [req EXCEPT ![h] = [pc |-> "enter", op |-> op, asked |-> uniqueChannelId]]
  /\ UNCHANGED << m_mutex, m_running, m_reloadChannelsGroupsAndEPG, life, proc, clock,
                  m_currentChannel >>
  /\ UNCHANGED lvars

(* Lines 223 and 305: GetChannel takes the mutex, copies the channel of the id
   into m_currentChannel when there is one, and gives the mutex back as it
   returns; the call goes on to its reading lines, or returns an error when
   there is no such channel. *)
Stream_GetChannel(h) ==
  /\ req[h].pc = "enter"
  /\ m_mutex = "none"
  /\ LET got == GetChannel(m_channels, req[h].asked)
     IN /\ m_currentChannel' = IF got.found THEN got.channel ELSE m_currentChannel
        /\ req' = [req EXCEPT ![h] =
                     IF got.found
                     THEN [pc |-> "use", op |-> @.op, asked |-> @.asked, mine |-> got.channel,
                           at |-> 0, read |-> EmptyChannel]
                     ELSE [pc |-> "returned", op |-> @.op, asked |-> @.asked, found |-> FALSE]]
  /\ UNCHANGED << m_mutex, m_running, m_reloadChannelsGroupsAndEPG, life, proc, clock >>
  /\ UNCHANGED lvars

(* One of the reading lines runs, with no lock: it reads m_currentChannel as
   it is now. *)
Stream_Use(h) ==
  /\ req[h].pc = "use"
  /\ \E k \in NextUses(req[h].op, req[h].at) :
       req' = [req EXCEPT ![h].at = k, ![h].read = m_currentChannel]
  /\ UNCHANGED << m_mutex, m_running, m_reloadChannelsGroupsAndEPG, life, proc, clock,
                  m_currentChannel >>
  /\ UNCHANGED lvars

(* The call returns, lines 245, 326 and 330, when no reading line is left that
   it has to run. *)
Stream_Return(h) ==
  /\ req[h].pc = "use"
  /\ \A j \in (req[h].at + 1)..Len(UseLines(req[h].op)) :
       UseLines(req[h].op)[j] \in OptionalUses
  /\ req' = [req EXCEPT ![h] = [pc |-> "returned", op |-> @.op, asked |-> @.asked,
                                found |-> TRUE]]
  /\ UNCHANGED << m_mutex, m_running, m_reloadChannelsGroupsAndEPG, life, proc, clock,
                  m_currentChannel >>
  /\ UNCHANGED lvars

StreamStep ==
  \E h \in DOMAIN req :
    \/ Stream_Call(h)
    \/ Stream_GetChannel(h)
    \/ Stream_Use(h)
    \/ Stream_Return(h)

-----------------------------------------------------------------------------
(* Specifications *)

(* The lines of the threads' specification. *)
ThreadPool == {Line_InfoPlain, Line_Url1}

(* The configurations of the threads' specification: each refresh mode. *)
ThreadSettings ==
  {[LenientSettings EXCEPT !.refreshMode = m] :
     m \in {"DISABLED", "REPEATED_REFRESH", "ONCE_PER_DAY"}}

InitThreads == InitWith(ThreadSettings, ThreadPool, MaxThreadLines, MaxLoads, Hosts, FALSE, "finished")

Next ==
  \/ Create_Begin
  \/ Create_Return
  \/ LoaderStep
  \/ ProcessStep
  \/ RequestStep
  \/ DestructorStep
  \/ Clock_Advance

(* The add-on among its threads. *)
Spec == InitThreads /\ [][Next]_vars

(* The add-on among its threads, with the scheduling the shutdown relies on: the
   refresh thread, the loader and the destructor keep running, and a fetch
   returns. *)
InitFair ==
  InitWith({[LenientSettings EXCEPT !.refreshMode = "REPEATED_REFRESH"]}, {Line_Url1},
           MaxFairLines, MaxLoads, Hosts, FALSE, "finished")

SpecFair ==
  /\ InitFair
  /\ [][Next]_vars
  /\ WF_vars(ProcessStep)
  /\ WF_vars(LoaderStep)
  /\ WF_vars(DestructorStep)

InitLoader == InitWith({LenientSettings, StrictSettings}, LoaderPool, MaxLines, MaxLoads, Hosts, FALSE, "none")

NextLoader == Solo_Create \/ Solo_SetSetting \/ Solo_Reload \/ LoaderStep

SpecLoader == InitLoader /\ [][NextLoader]_vars

(* The lines of the specification of repeated loads. *)
SamePool == {Line_HeaderVod, Line_HeaderUrlOther, Line_Info, Line_Url1}

(* The loader alone, on a fetcher that can serve the same content again. *)
InitSame ==
  InitWith({LenientSettings, StrictSettings}, SamePool, MaxSameLines, MaxSameLoads, Hosts, TRUE, "loaded")

SpecSame == InitSame /\ [][NextLoader]_vars

(* The loader alone, on one playlist of a header, an #EXTINF line and a URL. *)
InitParse ==
  InitOn({LenientSettings}, ParsePools, MaxParseLines, MaxLoads, Hosts, FALSE, "none")

SpecParse == InitParse /\ [][NextLoader]_vars

(* The lines of the specification of commits: a group-title, #EXTGRP, media
   markers, the VOD playlist type, and bare URL lines. *)
CommitPool == {Line_Info, Line_Group, Line_InfoMedia, Line_Vod, Line_Url1, Line_Url2}

(* The loader alone, its lines read and its insertion attempts noted, with the
   scheduling a load relies on: the thread that runs the loader keeps running
   and the content is finite, so std::getline comes to its end. *)
InitCommit ==
  InitWith({LenientSettings, StrictSettings, VodAsChannelsSettings}, CommitPool,
           MaxCommitLines, MaxLoads, Hosts, FALSE, "attempts")

SpecCommit == InitCommit /\ [][NextLoader]_vars /\ WF_vars(LoadPlayList_Return)

(* The playlists of the playable specification: one channel without catchup,
   with VOD catchup, with two days or no day of catchup, with VOD catchup and
   two days. *)
PlayableAttrs ==
  {NoInfoAttrs, [NoInfoAttrs EXCEPT !.catchup = "VOD"],
   [NoInfoAttrs EXCEPT !.catchup = "fs", !.days = "2"],
   [NoInfoAttrs EXCEPT !.catchup = "fs", !.days = "0"],
   [NoInfoAttrs EXCEPT !.catchup = "VOD", !.days = "2"]}

PlayablePools == {{Line_Header, InfoLineWith(a), Line_Url1} : a \in PlayableAttrs}

(* The add-on created by one load, then asked about EPG tags. *)
InitPlayable ==
  InitOn(CatchupSettings, PlayablePools, MaxPlayableLines, MaxPlayableLoads, Hosts, FALSE, "none")

NextPlayable ==
  \/ Solo_Create
  \/ LoadPlayList_Enter
  \/ LoadPlayList_Fetch
  \/ LoadPlayList_Line
  \/ LoadPlayList_Return
  \/ Create_AfterLoad
  \/ Solo_IsEPGTagPlayable
  \/ Solo_Answered

SpecPlayable == InitPlayable /\ [][NextPlayable]_vars

(* The property lines of the property specification: each marker with keys
   its filter takes and keys it leaves, a key in upper case, a value with a
   blank, a value with '=', and lines without '='. *)
PropertyLines ==
  {Line_KodiProp, Line_KodiClass, Line_KodiAny, Line_KodiNoEquals, Line_VlcUserAgent,
   Line_VlcReferrer, Line_VlcProgram, Line_VlcReconnect, Line_VlcOther, Line_DashReconnect,
   Line_DashUserAgent, Line_DashNoEquals}

(* The playlists of the property specification: the header, one or two
   property lines and a URL. *)
PropertyPools ==
  {{Line_Header, p1, p2, Line_Url1} : p1 \in PropertyLines, p2 \in PropertyLines}

InitProperty ==
  InitOn({LenientSettings}, PropertyPools, MaxPropertyLines, MaxLoads, Hosts, FALSE, "none")

SpecProperty == InitProperty /\ [][NextLoader]_vars

(* A configuration that numbers the channels by their order in the playlist. *)
OrderOnlySettings == [LenientSettings EXCEPT !.numberByOrderOnly = TRUE]

(* The #EXTINF lines of the numbering specification: no number, tvg-chno with
   and without a dot, channel-number with and without a dot, both attributes. *)
NumberLines ==
  {InfoLineNumbered(<<>>, <<>>, "One"), InfoLineNumbered(<< "7" >>, <<>>, "Two"),
   InfoLineNumbered(<< "3", DOT, "5" >>, <<>>, "Three"),
   InfoLineNumbered(<<>>, << "2" >>, "Four"),
   InfoLineNumbered(<<>>, << "5", DOT, "1" >>, "Five"),
   InfoLineNumbered(<< "7", DOT, "2" >>, << "3" >>, "Six")}

(* The playlists of the numbering specification: the header, one or two
   #EXTINF lines and a URL. *)
NumberPools == {{Line_Header, n1, n2, Line_Url1} : n1 \in NumberLines, n2 \in NumberLines}

InitNumber ==
  InitOn({LenientSettings, OrderOnlySettings}, NumberPools, MaxNumberLines, MaxLoads, Hosts, FALSE, "none")

SpecNumber == InitNumber /\ [][NextLoader]_vars

(* The configurations of the refresh specification: each refresh mode, with
   the refresh hour the hour the add-on is constructed in, or the next. *)
RefreshSettings ==
  {[LenientSettings EXCEPT !.refreshMode = m, !.refreshHour = r] :
     m \in {"DISABLED", "REPEATED_REFRESH", "ONCE_PER_DAY"}, r \in 0..MaxHour}

(* The add-on among its threads, with a host thread or with none (so that
   SetSetting is never called), the changes of the hour noted. *)
InitRefresh ==
  \/ InitOn(RefreshSettings, {{Line_Url1}}, MaxRefreshLines, MaxLoads, Hosts, FALSE, "hours")
  \/ InitOn(RefreshSettings, {{Line_Url1}}, MaxRefreshLines, MaxLoads, {}, FALSE, "hours")

SpecRefresh == InitRefresh /\ [][Next]_vars

(* A host thread's call comes to its end. *)
RequestEnds == \E h \in DOMAIN req : Request_Read(h) \/ Request_Lookup(h) \/ SetSetting(h)

(* The add-on among its threads, with the scheduling a reload after SetSetting
   relies on: the refresh thread and the loader keep running, a fetch returns,
   a host thread inside a call comes to its end, and the refresh thread gets
   the mutex it keeps asking for. *)
InitSetting ==
  InitWith({LenientSettings, [LenientSettings EXCEPT !.refreshMode = "REPEATED_REFRESH"]},
           {Line_Url1}, MaxSettingLines, MaxLoads, Hosts, FALSE, "none")

SpecSetting ==
  /\ InitSetting
  /\ [][Next]_vars
  /\ WF_vars(ProcessStep)
  /\ SF_vars(Process_Lock)
  /\ WF_vars(LoaderStep)
  /\ WF_vars(RequestEnds)

(* The host threads of the stream specification: two, so that two calls can
   be under way at once. *)
StreamHosts == {"h1", "h2"}

(* The lines of the stream specification: enough for two channels. *)
StreamPool == {Line_InfoPlain, Line_Url1, Line_Url2}

(* The add-on created by one load, then asked for stream properties by two
   host threads. *)
InitStream ==
  InitWith({LenientSettings}, StreamPool, MaxStreamLines, MaxPlayableLoads, StreamHosts,
           FALSE, "none")

NextStream ==
  \/ Solo_Create
  \/ LoadPlayList_Enter
  \/ LoadPlayList_Fetch
  \/ LoadPlayList_Line
  \/ LoadPlayList_Return
  \/ Create_AfterLoad
  \/ StreamStep
  \/ Solo_Answered

SpecStream == InitStream /\ [][NextStream]_vars

-----------------------------------------------------------------------------
(* Properties *)

(* The four stores m_mutex is there to guard. *)
FourStores == {"channels", "groups", "providers", "media"}

(* C1: every host operation that goes to the channel, group, provider or media
   store, and the EPG-entry lookup of IsEPGTagPlayable, holds m_mutex while it
   is there. *)
C1_StoreAccessHoldsMutex ==
  \A h \in DOMAIN req :
    (\/ req[h].pc = "access" /\ StoreOf(req[h].op) \in FourStores
     \/ req[h].pc = "lookup")
    => m_mutex = h

(* The reading operations that take m_mutex around a read of one of the four
   stores. *)
LockedReaders ==
  {"GetChannels", "GetChannelsAmount", "GetChannelGroups", "GetChannelGroupsAmount",
   "GetChannelGroupMembers", "GetProviders", "GetRecordings", "GetRecordingsAmount"}

(* C2: a reader that takes the mutex is at a store only when no load is under
   way, and the stores it sees are those the last finished load left: nothing
   between ReloadPlayList's clear and the end of LoadPlayList. *)
C2_ReloadAtomicForLockedReaders ==
  \A h \in DOMAIN req :
    (req[h].pc = "access" /\ req[h].op \in LockedReaders)
    => (lpc.pc = "idle" /\ proc.pc # "reloading" /\ Stores = hist.previous)

(* A locked reader waits while the reload, past its clear, reads lines. *)
C2_Witness ==
  \E h \in DOMAIN req :
    /\ req[h].pc = "enter" /\ req[h].op \in LockedReaders
    /\ lpc = [pc |-> "lines", caller |-> "Reload"]
    /\ io.lineNo > 0
    /\ hist.previous.channels.list # <<>>

(* C3: the thread that holds m_mutex neither sleeps nor fetches, so no host
   thread waits for the mutex behind a sleep or a fetch. *)
C3_NoSleepNoFetchUnderMutex ==
  /\ m_mutex = "proc" => (proc.pc \notin {"sleep", "reloadSleep"} /\ lpc.pc # "fetch")
  /\ m_mutex = "main" => lpc.pc # "fetch"

(* C4: after the destructor's stop the refresh thread wakes from at most one
   more sleep and admits no reload, it leaves Process, and the destructor gets
   through join and clear. *)
C4_ShutdownTerminates ==
  /\ [](life.ticks <= 1 /\ life.admitted = 0)
  /\ (life.dtor = "joining" ~> proc.pc = "exited")
  /\ (life.dtor = "joining" ~> life.dtor = "done")

(* The destructor is through, after a stop that found the thread asleep. *)
C4_Witness == life.dtor = "done" /\ life.ticks = 1 /\ proc.pc = "exited"

(* C5: the four triggers are sent, in order, exactly by the step that ends a
   ReloadPlayList whose LoadPlayList returned true, with the stores as the load
   left them; the step that ends a failed ReloadPlayList or a failed Create
   sends nothing and sets both load-failed signals. *)
C5_TriggersIffLoaded ==
  [][/\ (lpc = [pc |-> "loaded", caller |-> "Reload"] /\ lpc'.pc = "idle")
          => (host'.triggers = host.triggers \o UpdateTriggers /\ Stores' = Stores)
     /\ (lpc.pc = "failed" /\ lpc'.pc = "idle")
          => (host' = host /\ m_channels'.loadFailed /\ m_channelGroups'.loadFailed)
     /\ host' # host => lpc = [pc |-> "loaded", caller |-> "Reload"]]_vars

(* A reload that loaded channels has told the host. *)
C5_Witness ==
  /\ lpc = [pc |-> "idle", caller |-> "Reload"]
  /\ host.triggers = UpdateTriggers
  /\ m_channels.list # <<>>
  /\ ~m_channels.loadFailed

(* The value the header line gives for the EPG url: the token the quote after
   the first url marker opens, else the one after the alternate marker. *)
HeaderUrlOf(line) ==
  IF \E i \in 1..Len(line) : line[i] = TVG_URL_MARKER
  THEN << line[(CHOOSE i \in 1..Len(line) : line[i] = TVG_URL_MARKER) + 2] >>
  ELSE IF \E i \in 1..Len(line) : line[i] = TVG_URL_OTHER_MARKER
       THEN << line[(CHOOSE i \in 1..Len(line) : line[i] = TVG_URL_OTHER_MARKER) + 2] >>
       ELSE <<>>

(* LoadPlayList has returned true on a content of one line, a #EXTM3U header. *)
HeaderOnlyLoaded ==
  /\ lpc.pc = "loaded"
  /\ Len(io.content) = 1
  /\ \E i \in 1..2 : i <= Len(io.content[1]) /\ io.content[1][i] = M3U_START_MARKER
                     /\ (i = 2 => io.content[1][1] = BOM)

(* C6: once the fetch succeeded LoadPlayList returns true, whatever was parsed;
   after a playlist of only a #EXTM3U line the channel and media stores are
   empty and the settings' tvgUrl is the header's url value. *)
C6_EmptyPlaylistLoads ==
  /\ [][lpc.pc = "lines" => lpc'.pc \in {"lines", "loaded"}]_vars
  /\ [](HeaderOnlyLoaded =>
          /\ m_channels.list = <<>>
          /\ m_media = <<>>
          /\ settings.tvgUrl = HeaderUrlOf(io.content[1]))

(* A header with only the alternate url marker was loaded, and nothing else. *)
C6_Witness ==
  /\ HeaderOnlyLoaded
  /\ io.content = << Line_HeaderUrlOther >>
  /\ settings.tvgUrl = << "U2" >>
  /\ m_channels.list = <<>>

(* C7: a load of the content the last successful load had leaves the four
   stores as that load left them. *)
C7_SameLoadSameStores ==
  (lpc.pc = "loaded" /\ io.same) => Stores = hist.previous

(* The third load, a reload, has repeated the second reload's content, which
   was not the first load's, and there are channels and groups. *)
C7_Witness ==
  /\ lpc = [pc |-> "loaded", caller |-> "Reload"]
  /\ io.same /\ io.changed
  /\ hist.loads = 3
  /\ m_channels.list # <<>>
  /\ m_channelGroups.list # <<>>

(* C8: in a load whose first non-empty line is not #EXTM3U the header strings
   the entries are parsed with are empty. *)
C8_NoHeaderMeansEmptyDefaults ==
  (lpc.pc = "lines" /\ ~lv.isFirstLine /\ ~lv.headerRead)
  => m_m3uHeaderStrings = NoHeaderStrings

(* C9: the turn of the loop that reads a malformed #EXTINF line leaves the
   scratch channel, the scratch media entry, the group-id list,
   channelHadGroups, isRealTime and isMediaEntry as they were. *)
C9_MalformedInfoIsInert ==
  [][(/\ lpc.pc = "lines" /\ lpc'.pc = "lines"
      /\ io'.lineNo = io.lineNo + 1
      /\ StartsWith(lv'.line, M3U_INFO_MARKER)
      /\ ~IsWellFormedInfoLine(lv'.line))
     => /\ lv'.tmpChannel = lv.tmpChannel
        /\ lv'.tmpMediaEntry = lv.tmpMediaEntry
        /\ lv'.currentChannelGroupIdList = lv.currentChannelGroupIdList
        /\ lv'.channelHadGroups = lv.channelHadGroups
        /\ lv'.isRealTime = lv.isRealTime
        /\ lv'.isMediaEntry = lv.isMediaEntry]_vars

(* C10: when the line the loop read last is a URL line, the scratch state is
   the initial one, the group-id list empty. *)
C10_ScratchResetAfterUrl ==
  (lpc.pc = "lines" /\ io.lineNo > 0 /\ lv.line # <<>> /\ IsUrlLine(lv.line))
  => /\ lv.tmpChannel = EmptyChannel
     /\ lv.tmpMediaEntry = EmptyMediaEntry
     /\ lv.currentChannelGroupIdList = <<>>
     /\ ~lv.channelHadGroups
     /\ lv.isRealTime
     /\ ~lv.isMediaEntry

(* The lines the loop dispatches, of the lines read: trimmed, the empty ones
   skipped, the first one without its BOM and skipped when it is the header. *)
RECURSIVE DispatchedOf(_, _)
DispatchedOf(lines, first) ==
  IF lines = <<>> THEN <<>>
  ELSE IF Trim(Head(lines)) = <<>> THEN DispatchedOf(Tail(lines), first)
  ELSE IF first
       THEN IF StartsWith(StripBom(Trim(Head(lines))), M3U_START_MARKER)
            THEN DispatchedOf(Tail(lines), FALSE)
            ELSE << StripBom(Trim(Head(lines))) >> \o DispatchedOf(Tail(lines), FALSE)
       ELSE << Trim(Head(lines)) >> \o DispatchedOf(Tail(lines), FALSE)

(* Whether a line carries one of the markers media, media-dir, media-size. *)
CarriesMediaMarker(line) ==
  \E i \in 1..Len(line) : line[i] \in {MEDIA, MEDIA_DIR, MEDIA_SIZE}

(* Whether a line is #EXT-X-PLAYLIST-TYPE:VOD. *)
IsVodTypeLine(line) ==
  Len(line) = 2 /\ line[1] = PLAYLIST_TYPE_MARKER /\ line[2] = "VOD"

(* The store each URL line of the dispatched lines goes to by the rule of the
   commit, with its URL: marker tells whether the pending #EXTINF carried a
   media marker, vod whether the VOD playlist type came since the last URL. *)
RECURSIVE StoreByRule(_, _, _, _)
StoreByRule(lines, marker, vod, cfg) ==
  IF lines = <<>> THEN <<>>
  ELSE IF Head(lines) # <<>> /\ Head(lines)[1] = M3U_INFO_MARKER
       THEN StoreByRule(Tail(lines), CarriesMediaMarker(Head(lines)), vod, cfg)
  ELSE IF IsVodTypeLine(Head(lines)) THEN StoreByRule(Tail(lines), marker, TRUE, cfg)
  ELSE IF Head(lines) # <<>> /\ Head(lines)[1] \in HashTokens
       THEN StoreByRule(Tail(lines), marker, vod, cfg)
  ELSE << [store |-> IF (~vod \/ ~cfg.mediaEnabled \/ ~cfg.showVodAsRecordings) /\ ~marker
                     THEN "channels" ELSE "media",
           url |-> Head(lines)] >>
       \o StoreByRule(Tail(lines), FALSE, FALSE, cfg)

(* The insertion attempts noted, without their outcomes. *)
AttemptsMade == [i \in 1..Len(hist.attempts) |->
                   [store |-> hist.attempts[i].store, url |-> hist.attempts[i].url]]

(* How many of the attempts noted added an entry to the store. *)
AddedTo(store) ==
  Cardinality({i \in 1..Len(hist.attempts) :
                 hist.attempts[i].store = store /\ hist.attempts[i].added})

(* C11: while a load reads lines, the insertion attempts made are one for each
   URL line read, in the store the rule of the commit gives (the channel store
   iff the entry is real-time or media or VOD-as-recordings is off, and the
   pending #EXTINF carried no media marker; else the media store); each store
   holds as many entries as attempts added to it, and no turn of the loop adds
   to both stores. *)
C11_OneAttemptInTheStoreByRule ==
  /\ [](lpc.pc \in {"lines", "loaded"} =>
          /\ AttemptsMade = StoreByRule(DispatchedOf(hist.lines, TRUE), FALSE, FALSE, settings)
          /\ Len(m_channels.list) = AddedTo("channels")
          /\ Len(m_media) = AddedTo("media"))
  /\ [][(lpc.pc = "lines" /\ lpc'.pc = "lines")
          => /\ Len(hist'.attempts) <= Len(hist.attempts) + 1
             /\ (m_channels'.list = m_channels.list \/ m_media' = m_media)]_vars

(* A load has committed a media entry for a URL after the VOD playlist type, a
   media entry for a URL after an #EXTINF with media markers, and a channel for
   a bare URL. *)
C11_Witness ==
  /\ lpc.pc = "lines"
  /\ hist.lines = << Line_Vod, Line_Url1, Line_InfoMedia, Line_Url2, Line_Url1 >>
  /\ hist.attempts = << Attempt("media", Line_Url1, TRUE),
                        Attempt("media", << "http://h/2" >>, TRUE),
                        Attempt("channels", Line_Url1, TRUE) >>

(* Whether a line carries a non-empty group-title or is a non-empty #EXTGRP. *)
CarriesGroups(line) ==
  \/ StartsWith(line, M3U_INFO_MARKER) /\ ReadMarkerValue(line, GROUP_NAME_MARKER) # <<>>
  \/ StartsWith(line, M3U_GROUP_MARKER) /\ ReadMarkerValue(line, M3U_GROUP_MARKER) # <<>>

(* Whether a line marks its entry as radio. *)
CarriesRadio(line) ==
  StartsWith(line, M3U_INFO_MARKER) /\ ReadMarkerValue(line, RADIO_MARKER) # <<>>

(* For each URL line of the dispatched lines, whether a line of its block (the
   lines since the URL line before) carried groups, and whether one carried
   the radio marker. *)
RECURSIVE BlocksOf(_, _, _)
BlocksOf(lines, groups, radio) ==
  IF lines = <<>> THEN <<>>
  ELSE IF IsUrlLine(Head(lines))
       THEN << [groups |-> groups, radio |-> radio] >> \o BlocksOf(Tail(lines), FALSE, FALSE)
       ELSE BlocksOf(Tail(lines), groups \/ CarriesGroups(Head(lines)),
                     radio \/ CarriesRadio(Head(lines)))

(* C12: under a configuration that requires group membership of TV channels, a
   TV channel whose block carried no non-empty group-title and no non-empty
   #EXTGRP value is attempted and not added; the load is not failed by it and
   goes on reading lines. *)
C12_GroupGatedDrop ==
  (lpc.pc \in {"lines", "loaded"} /\ settings.tvGroupsOnly)
  => /\ Len(hist.attempts) = Len(BlocksOf(DispatchedOf(hist.lines, TRUE), FALSE, FALSE))
     /\ \A i \in 1..Len(hist.attempts) :
          (/\ hist.attempts[i].store = "channels"
           /\ ~BlocksOf(DispatchedOf(hist.lines, TRUE), FALSE, FALSE)[i].groups
           /\ ~BlocksOf(DispatchedOf(hist.lines, TRUE), FALSE, FALSE)[i].radio)
          => ~hist.attempts[i].added
     /\ \A i \in 1..Len(m_channels.list) :
          \E j \in 1..Len(hist.attempts) :
            /\ hist.attempts[j].url = m_channels.list[i].streamURL
            /\ BlocksOf(DispatchedOf(hist.lines, TRUE), FALSE, FALSE)[j].groups
     /\ ~m_channels.loadFailed /\ ~m_channelGroups.loadFailed

(* Under the strict configuration a channel without groups was dropped, and the
   loader went on and added the channel of the next block, which has a group. *)
C12_Witness ==
  /\ settings = StrictSettings
  /\ lpc.pc = "loaded"
  /\ hist.lines = << Line_Url1, Line_Group, Line_Url2 >>
  /\ hist.attempts = << Attempt("channels", Line_Url1, FALSE),
                        Attempt("channels", << "http://h/2" >>, TRUE) >>
  /\ Len(m_channels.list) = 1

(* The URLs of the attempts noted that added an entry to the store, in order. *)
UrlsAddedTo(store) ==
  LET added == SelectSeq(hist.attempts, LAMBDA a : a.store = store /\ a.added)
  IN [i \in 1..Len(added) |-> added[i].url]

(* C18: a load whose fetch succeeded reads one more line with every turn of the
   loop and comes to return true; when it has, the insertion attempts are those
   of the URL lines read, in their order, rejected ones included, and the
   channel and the media store hold the entries of the attempts that added
   one, in that order. *)
C18_EveryLineOnceAndSalvage ==
  /\ (lpc.pc = "lines" ~> lpc.pc = "loaded")
  /\ [][(lpc.pc = "lines" /\ lpc'.pc = "lines")
          => (io'.lineNo = io.lineNo + 1 /\ Len(hist'.lines) = io'.lineNo
              /\ SubSeq(hist'.lines, 1, io.lineNo) = hist.lines)]_vars
  /\ [](lpc.pc = "loaded" =>
          /\ [i \in 1..Len(hist.attempts) |-> hist.attempts[i].url]
               = SelectSeq(DispatchedOf(hist.lines, TRUE), IsUrlLine)
          /\ [i \in 1..Len(m_channels.list) |-> m_channels.list[i].streamURL]
               = UrlsAddedTo("channels")
          /\ [i \in 1..Len(m_media) |-> m_media[i].streamURL] = UrlsAddedTo("media"))

(* A load has returned true after a media entry was rejected for its unique id
   and the channel of the URL line after it was added. *)
C18_Witness ==
  /\ lpc.pc = "loaded"
  /\ hist.lines = << Line_Vod, Line_Url1, Line_Vod, Line_Url1, Line_Url2 >>
  /\ hist.attempts = << Attempt("media", Line_Url1, TRUE), Attempt("media", Line_Url1, FALSE),
                        Attempt("channels", << "http://h/2" >>, TRUE) >>
  /\ Len(m_media) = 1 /\ Len(m_channels.list) = 1

(* The line read last is an #EXTINF line that ParseIntoChannel has parsed. *)
InfoLineParsed ==
  /\ lpc.pc = "lines" /\ io.lineNo > 0
  /\ StartsWith(lv.line, M3U_INFO_MARKER)
  /\ IsWellFormedInfoLine(lv.line)

(* C13: every channel of the channel store, and the scratch channel after a
   parse, has the catchup days IGNORE_CATCHUP_DAYS when its mode is VOD. *)
C13_VodIgnoresCatchupDays ==
  /\ \A i \in 1..Len(m_channels.list) :
       m_channels.list[i].catchupMode = "VOD"
       => m_channels.list[i].catchupDays = IGNORE_CATCHUP_DAYS
  /\ (InfoLineParsed /\ lv.tmpChannel.catchupMode = "VOD")
     => lv.tmpChannel.catchupDays = IGNORE_CATCHUP_DAYS

(* C14: the scratch channel has hasCatchup exactly when its catchup mode is not
   the disabled one, in every state of a load: after any #EXTINF lines and
   after the reset of a commit; and so has every channel of the store. *)
C14_HasCatchupIffMode ==
  /\ lv.tmpChannel.hasCatchup <=> lv.tmpChannel.catchupMode # "DISABLED"
  /\ \A i \in 1..Len(m_channels.list) :
       m_channels.list[i].hasCatchup <=> m_channels.list[i].catchupMode # "DISABLED"

(* A second #EXTINF line, with no catchup attribute, was parsed into a scratch
   channel that had its flags from the siptv timeshift of the line before: it
   keeps them. *)
C14_Witness ==
  /\ InfoLineParsed
  /\ lv.line = InfoLineWith(NoInfoAttrs)
  /\ lv.tmpChannel.hasCatchup /\ lv.tmpChannel.catchupMode = "TIMESHIFT"

(* The text between the first colon of a line and the comma at (1-based) index
   comma. *)
SectionUpTo(line, comma) ==
  SubSeq(line, (CHOOSE i \in 1..Len(line) : line[i] = COLON /\ \A j \in 1..(i - 1) : line[j] # COLON) + 1,
         comma - 1)

(* The text of a decimal integer that leads a text after blanks, "0" when none
   does. *)
RECURSIVE LeadingIntegerText(_)
LeadingIntegerText(text) ==
  IF text = <<>> THEN << "0" >>
  ELSE IF Head(text) = SPACE THEN LeadingIntegerText(Tail(text))
  ELSE IF Head(text) \in IntTokens THEN << Head(text) >> ELSE << "0" >>

(* The quoted or blank-ended value that follows a marker in a text, by
   position: empty when the marker is not there. *)
HasValue(text, markerName) ==
  \E i \in 1..(Len(text) - 1) :
    /\ text[i] = markerName
    /\ \A j \in 1..(i - 1) : text[j] # markerName
    /\ IF text[i + 1] = QUOTE THEN i + 2 <= Len(text) /\ text[i + 2] # QUOTE
       ELSE text[i + 1] # SPACE

(* C16: after a parse the scratch channel's tvgId is not empty, and when the
   attribute section has neither a tvg-id nor a tvg-ID value it is the text of
   the section's leading integer, "0" when none leads. *)
C16_SyntheticTvgId ==
  InfoLineParsed
  => /\ lv.tmpChannel.tvgId # <<>>
     /\ (/\ ~HasValue(InfoLineOf(lv.line), TVG_INFO_ID_MARKER)
         /\ ~HasValue(InfoLineOf(lv.line), TVG_INFO_ID_MARKER_UC))
        => lv.tmpChannel.tvgId = LeadingIntegerText(InfoLineOf(lv.line))

(* A line with no tvg-id and no leading integer was parsed: the tvgId is "0". *)
C16_Witness ==
  /\ InfoLineParsed
  /\ lv.line = Line_InfoNoInteger
  /\ lv.tmpChannel.tvgId = << "0" >>

(* The index of the comma the name follows, by the rule: the first comma after
   the last quote when the line has a quote and the text after the last quote,
   trimmed, begins with a comma; else the last comma of the line. *)
CommaByRule(line) ==
  LET quotes == {i \in 1..Len(line) : line[i] = QUOTE}
      commas == {i \in 1..Len(line) : line[i] = COMMA}
      lastQuote == CHOOSE i \in quotes : \A j \in quotes : j <= i
  IN IF quotes # {} /\ StartsWith(Trim(SubSeq(line, lastQuote + 1, Len(line))), COMMA)
     THEN CHOOSE i \in commas : i > lastQuote /\ \A j \in commas : j > lastQuote => i <= j
     ELSE CHOOSE i \in commas : \A j \in commas : j <= i

(* C17: after a parse the channel name is the trimmed text after the comma the
   rule gives, and the attributes were read from the text between the first
   colon and that comma. *)
C17_NameAfterTheCommaByRule ==
  InfoLineParsed
  => /\ lv.tmpChannel.channelName
          = Trim(SubSeq(lv.line, CommaByRule(lv.line) + 1, Len(lv.line)))
     /\ lv.tmpChannel.tvgName
          = ReadMarkerValue(SectionUpTo(lv.line, CommaByRule(lv.line)), TVG_INFO_NAME_MARKER)
     /\ lv.tmpChannel.tvgId
          = TvgIdOf(SectionUpTo(lv.line, CommaByRule(lv.line)))

(* A line with a comma in its name after the quoted attributes was parsed: the
   name keeps its comma. *)
C17_Witness ==
  /\ InfoLineParsed
  /\ lv.line = Trim(Line_InfoCommaInName)
  /\ lv.tmpChannel.channelName = << "C", COMMA, "D" >>
  /\ lv.tmpChannel.tvgName = << "A" >>

(* The catchup days by the priority: the channel's own catchup-days, else the
   header's, else IGNORE_CATCHUP_DAYS under the mode VOD, else the siptv days
   when above 0, else the configured default. *)
DaysByPriority(ownDays, headerDays, mode, siptvDays, defaultDays) ==
  IF ownDays # <<>> THEN Atoi(ownDays)
  ELSE IF headerDays # <<>> THEN Atoi(headerDays)
  ELSE IF mode = "VOD" THEN IGNORE_CATCHUP_DAYS
  ELSE IF siptvDays > 0 THEN siptvDays
  ELSE defaultDays

(* The siptv days of an attribute section: timeshift, or tvg-rec when timeshift
   is absent or 0. *)
SiptvDaysByRule(section) ==
  IF Atoi(ReadMarkerValue(section, CATCHUP_SIPTV)) # 0
  THEN Atoi(ReadMarkerValue(section, CATCHUP_SIPTV))
  ELSE Atoi(ReadMarkerValue(section, TVG_INFO_REC))

(* C19: after a parse in a load that read a header, the scratch channel's
   catchup days are those the priority gives. *)
C19_CatchupDaysByPriority ==
  (InfoLineParsed /\ lv.headerRead)
  => lv.tmpChannel.catchupDays
       = DaysByPriority(ReadMarkerValue(InfoLineOf(lv.line), CATCHUP_DAYS),
                        m_m3uHeaderStrings.m_catchupDays, lv.tmpChannel.catchupMode,
                        SiptvDaysByRule(InfoLineOf(lv.line)), settings.catchupDays)

(* C20: after a parse in a load that read a header, the scratch channel's
   catchup source is the line's own when it has one, else the header's. *)
C20_HeaderCatchupSourceFallback ==
  (InfoLineParsed /\ lv.headerRead)
  => lv.tmpChannel.catchupSource
       = IF ReadMarkerValue(InfoLineOf(lv.line), CATCHUP_SOURCE) # <<>>
         THEN ReadMarkerValue(InfoLineOf(lv.line), CATCHUP_SOURCE)
         ELSE m_m3uHeaderStrings.m_catchupSource

(* C15: with catchup enabled, IsEPGTagPlayable says playable exactly when the
   tag's channel is in the store and has catchup and, for a channel that
   ignores the catchup days, the EPG entry at the tag's start has a catchup id;
   for any other channel the tag started before now and no earlier than the
   channel's days before now, and ended before now when only finished
   programmes are offered.  A tag that started exactly the channel's days
   before now is in the window of days, a tag that starts now is not. *)
AskedChannels(h) ==
  {i \in 1..Len(m_channels.list) : m_channels.list[i].uniqueId = req[h].tag.uniqueChannelId}

InTheDayWindow(h, days) ==
  /\ req[h].tag.startTime < req[h].now
  /\ req[h].tag.startTime >= req[h].now - days * 86400
  /\ (~settings.catchupOnlyOnFinishedProgrammes \/ req[h].tag.endTime < req[h].now)

PlayableByRule(h) ==
  \E i \in AskedChannels(h) :
    /\ \A j \in AskedChannels(h) : i <= j
    /\ m_channels.list[i].hasCatchup
    /\ IF m_channels.list[i].catchupDays = IGNORE_CATCHUP_DAYS
       THEN req[h].epgEntry.entry /\ req[h].epgEntry.catchupId # <<>>
       ELSE InTheDayWindow(h, m_channels.list[i].catchupDays)

C15_PlayableExactlyInTheWindow ==
  \A h \in DOMAIN req :
    (req[h].pc = "returned" /\ settings.catchupEnabled) =>
      /\ req[h].out.ret = "PVR_ERROR_NO_ERROR"
      /\ req[h].out.bIsPlayable = PlayableByRule(h)
      /\ (/\ req[h].tag.startTime = req[h].now
          /\ \A i \in AskedChannels(h) : m_channels.list[i].catchupDays # IGNORE_CATCHUP_DAYS)
         => ~req[h].out.bIsPlayable
      /\ \A i \in AskedChannels(h) :
           (/\ \A j \in AskedChannels(h) : i <= j
            /\ m_channels.list[i].hasCatchup
            /\ m_channels.list[i].catchupDays > 0
            /\ req[h].tag.startTime = req[h].now - m_channels.list[i].catchupDays * 86400
            /\ (~settings.catchupOnlyOnFinishedProgrammes \/ req[h].tag.endTime < req[h].now))
           => req[h].out.bIsPlayable

(* A tag that started exactly two days before now, of a channel with two days
   of catchup, was found playable. *)
C15_Witness ==
  \E h \in DOMAIN req :
    /\ req[h].pc = "returned" /\ settings.catchupEnabled
    /\ settings.catchupOnlyOnFinishedProgrammes
    /\ \E i \in AskedChannels(h) :
         m_channels.list[i].hasCatchup /\ m_channels.list[i].catchupDays = 2
    /\ req[h].tag.startTime = req[h].now - 2 * 86400
    /\ req[h].tag.endTime < req[h].now
    /\ req[h].out.bIsPlayable

(* The loop has just read a property line: the line its turn trimmed leads with
   one of the three property markers. *)
PropertyMarkers == {KODIPROP_MARKER, EXTVLCOPT_MARKER, EXTVLCOPT_DASH_MARKER}

PropertyLineRead ==
  /\ lpc.pc = "lines" /\ lpc'.pc = "lines"
  /\ io'.lineNo = io.lineNo + 1
  /\ ~lv.isFirstLine
  /\ lv'.line # <<>> /\ lv'.line[1] \in PropertyMarkers

(* The text of a property line before its first '=' in lower case, and the
   text after it to the end of the line. *)
KeyTextOf(line) == ToLower(SubSeq(line, 2, Find(line, EQUALS, 1) - 1))

ValueTextOf(line) == SubSeq(line, Find(line, EQUALS, 1) + 1, Len(line))

(* The keys a property line adds by the rule of its marker: none without '='. *)
KeysByRule(line) ==
  IF Find(line, EQUALS, 1) = 0 THEN {}
  ELSE IF line[1] = EXTVLCOPT_MARKER
       THEN {KeyTextOf(line)} \cap {<< "http-user-agent" >>, << "http-referrer" >>, << "program" >>}
  ELSE IF line[1] = EXTVLCOPT_DASH_MARKER
       THEN {KeyTextOf(line)} \cap {<< "http-reconnect" >>}
  ELSE IF KeyTextOf(line) \in {<< "inputstreamaddon" >>, << "inputstreamclass" >>}
       THEN {<< "inputstream" >>}
  ELSE {KeyTextOf(line)}

PropertyKeys(channel) == {kv[1] : kv \in channel.properties}

(* C21: a property line read by the loop adds to the scratch channel the key
   the rule of its marker gives, lower-cased (#EXTVLCOPT: only http-user-agent,
   http-referrer, program; #EXTVLCOPT-- only http-reconnect; #KODIPROP: any key,
   inputstreamaddon and inputstreamclass as inputstream), keeps the properties
   the channel had, and changes nothing when it has no '=' or its key is left
   out. *)
C21_PropertyKeysByMarker ==
  [][PropertyLineRead =>
       /\ PropertyKeys(lv'.tmpChannel) = PropertyKeys(lv.tmpChannel) \cup KeysByRule(lv'.line)
       /\ lv.tmpChannel.properties \subseteq lv'.tmpChannel.properties
       /\ (KeysByRule(lv'.line) = {}
             => lv'.tmpChannel.properties = lv.tmpChannel.properties)]_vars

(* After a #KODIPROP: line with InputStreamAddon, an #EXTVLCOPT: line with the
   key http-reconnect was read and left the scratch channel as it was. *)
C21_Witness ==
  /\ lpc.pc = "lines"
  /\ lv.line = Line_VlcReconnect
  /\ lv.tmpChannel.properties = {<< << "inputstream" >>, << "adaptive" >> >>}

(* C29: a property line key=value that passes the filter of its marker, with a
   key the scratch channel does not have yet, stores under the key the whole
   text after the first '=' to the end of the line, blanks included. *)
C29_WholeValueStored ==
  [][(PropertyLineRead /\ KeysByRule(lv'.line) # {}
        /\ KeysByRule(lv'.line) \cap PropertyKeys(lv.tmpChannel) = {})
       => \A k \in KeysByRule(lv'.line) :
            << k, ValueTextOf(lv'.line) >> \in lv'.tmpChannel.properties]_vars

(* The loop has just read an #EXTINF line. *)
InfoLineRead ==
  /\ lpc.pc = "lines" /\ lpc'.pc = "lines"
  /\ io'.lineNo = io.lineNo + 1
  /\ ~lv.isFirstLine
  /\ lv'.line # <<>> /\ lv'.line[1] = M3U_INFO_MARKER

(* The quoted text after the first occurrence of a marker in a line. *)
QuotedAfter(line, markerName) ==
  IF Find(line, markerName, 1) = 0 THEN <<>>
  ELSE SubSeq(line, Find(line, markerName, 1) + 2,
              Find(line, QUOTE, Find(line, markerName, 1) + 2) - 1)

(* The number attribute of an #EXTINF line: tvg-chno, else channel-number. *)
NumberTextOf(line) ==
  IF QuotedAfter(line, TVG_INFO_CHNO_MARKER) # <<>> THEN QuotedAfter(line, TVG_INFO_CHNO_MARKER)
  ELSE QuotedAfter(line, CHANNEL_NUMBER_MARKER)

(* Whether the number attribute of the line applies under the configuration. *)
NumberApplies(line) == NumberTextOf(line) # <<>> /\ ~settings.numberByOrderOnly

(* C22: an #EXTINF line read by the loop leaves the scratch channel with the
   channel store's current ordinal number, unless tvg-chno (else
   channel-number) is present and the configuration does not number by order
   only: then 'N.M' gives channelNumber N and subChannelNumber M, and a value N
   without a dot gives channelNumber N and subChannelNumber 0. *)
C22_NumberFromOrdinalOrAttribute ==
  [][InfoLineRead =>
       IF NumberApplies(lv'.line)
       THEN /\ lv'.tmpChannel.channelNumber = IntOf(NumberTextOf(lv'.line)[1])
            /\ lv'.tmpChannel.subChannelNumber =
                 IF Len(NumberTextOf(lv'.line)) = 3 THEN IntOf(NumberTextOf(lv'.line)[3]) ELSE 0
       ELSE lv'.tmpChannel.channelNumber = m_channels.current]_vars

(* The four stores hold nothing. *)
StoresHoldNothing ==
  /\ m_channels.list = <<>>
  /\ m_channelGroups.list = <<>>
  /\ m_providers = <<>>
  /\ m_media = <<>>

(* C26: a reload whose load fails, for want of a location or of the fetched
   content, has the four stores empty when the load returns and when
   ReloadPlayList returns: nothing of the load before is kept. *)
C26_FailedReloadLeavesStoresEmpty ==
  /\ []((lpc.caller = "Reload" /\ lpc.pc = "failed") => StoresHoldNothing)
  /\ [][(lpc.caller = "Reload" /\ lpc.pc = "failed" /\ lpc'.pc = "idle")
          => (StoresHoldNothing)']_vars

(* A reload failed after a load that had stored a channel, a group and a
   provider or media entry, and the stores are empty. *)
C26_Witness ==
  /\ lpc.caller = "Reload" /\ lpc.pc = "failed"
  /\ hist.previous.channels.list # <<>>
  /\ hist.previous.groups.list # <<>>
  /\ StoresHoldNothing

(* The loop has just read a URL line and the channel store took its channel. *)
UrlLineCommittedChannel ==
  /\ lpc.pc = "lines" /\ lpc'.pc = "lines"
  /\ io'.lineNo = io.lineNo + 1
  /\ ~lv.isFirstLine
  /\ lv'.line # <<>> /\ lv'.line[1] \notin HashTokens
  /\ Len(m_channels'.list) = Len(m_channels.list) + 1

(* C27: a channel committed with channelHadGroups true is handed to the
   channel store with a group-id list that is not empty. *)
C27_HadGroupsMeansGroupIds ==
  [][(UrlLineCommittedChannel /\ lv.channelHadGroups)
       => lv.currentChannelGroupIdList # <<>>]_vars

(* The refresh thread admits a reload: it keeps the mutex and goes on to
   ReloadPlayList. *)
ReloadIsAdmitted == proc.pc = "lock" /\ proc'.pc = "reloadSleep"

(* A SetSetting call comes to its end. *)
SetSettingReturns ==
  \E h \in DOMAIN req : req[h].pc = "access" /\ req[h].op = "SetSetting" /\ req'[h].pc = "idle"

(* A tick of the refresh thread on which a refresh is due: the seconds counted
   since the last reload have reached the interval of REPEATED_REFRESH, or the
   hour is the refresh hour of ONCE_PER_DAY and not the hour of the tick
   before. *)
TickWithRefreshDue ==
  /\ proc.pc = "sleep" /\ proc'.pc = "lock"
  /\ \/ /\ settings.refreshMode = "REPEATED_REFRESH"
        /\ proc'.refreshTimer >= settings.refreshIntervalMins * 60
     \/ /\ settings.refreshMode = "ONCE_PER_DAY"
        /\ clock.hour # proc.lastRefreshHour
        /\ clock.hour = settings.refreshHour

(* C25: the refresh thread admits a reload only with the reload flag set; the
   flag is set only by a SetSetting call or by a tick on which a refresh is
   due; with no host thread to call SetSetting and the refresh mode DISABLED
   the flag is never set and no reload is made; in ONCE_PER_DAY mode, with no
   host thread, a thread started in the refresh hour makes no reload while the
   hour has not changed. *)
C25_ReloadOnlyOnFlagSetByRule ==
  /\ [][ReloadIsAdmitted => m_reloadChannelsGroupsAndEPG]_vars
  /\ [][(~m_reloadChannelsGroupsAndEPG /\ m_reloadChannelsGroupsAndEPG')
          => (SetSettingReturns \/ TickWithRefreshDue)]_vars
  /\ []((DOMAIN req = {} /\ settings.refreshMode = "DISABLED")
          => (~m_reloadChannelsGroupsAndEPG /\ hist.loads <= 1))
  /\ []((DOMAIN req = {} /\ settings.refreshMode = "ONCE_PER_DAY"
         /\ settings.refreshHour = 0 /\ ~clock.moved)
          => (~m_reloadChannelsGroupsAndEPG /\ hist.loads <= 1))

(* In ONCE_PER_DAY mode with no host thread, a thread started in the refresh
   hour has ticked in that hour without a reload, and, a day later, has
   reloaded in the refresh hour. *)
C25_Witness ==
  /\ DOMAIN req = {}
  /\ settings.refreshMode = "ONCE_PER_DAY" /\ settings.refreshHour = 0
  /\ clock.moved /\ clock.hour = 0
  /\ proc.pc = "reloading"
  /\ hist.loads = 2

(* The refresh thread is inside the critical section of a reload. *)
ReloadUnderWay == proc.pc \in {"reloadSleep", "reloading"}

(* C24: a SetSetting call returns with the reload flag set and no reload under
   way; the flag is cleared only by the last step of a reload's critical
   section; and from every state with the flag set, the refresh thread running
   and no reload under way, a reload begins (or the add-on is being
   destroyed).  So a reload begins after every SetSetting call that returned. *)
C24_ReloadFollowsSetSetting ==
  /\ [][SetSettingReturns => (m_reloadChannelsGroupsAndEPG' /\ ~ReloadUnderWay)]_vars
  /\ [][(m_reloadChannelsGroupsAndEPG /\ ~m_reloadChannelsGroupsAndEPG')
          => (proc.pc = "reloading" /\ proc'.pc = "head" /\ m_mutex = "proc")]_vars
  /\ ((m_reloadChannelsGroupsAndEPG /\ m_running /\ ~ReloadUnderWay)
        ~> (proc.pc = "reloadSleep" \/ ~m_running))

(* In DISABLED mode the refresh thread begins a second reload: SetSetting was
   called after the first one. *)
C24_Witness ==
  /\ settings.refreshMode = "DISABLED"
  /\ proc.pc = "reloadSleep"
  /\ m_running
  /\ hist.loads = 2

(* C28: the destructor is past its join only when Process has returned; once
   it has cleared the channel, group and provider stores no load runs and they
   stay empty; and while it waits for the thread it does not hold m_mutex. *)
C28_JoinBeforeClear ==
  /\ life.dtor \in {"locking", "done"} => (proc.pc = "exited" /\ lpc.pc = "idle")
  /\ life.dtor = "done"
       => (m_channels.list = <<>> /\ m_channelGroups.list = <<>> /\ m_providers = <<>>)
  /\ life.dtor = "joining" => m_mutex \in {"none", "proc"}

(* The destructor has cleared the stores after a reload that had stored a
   channel. *)
C28_Witness ==
  /\ life.dtor = "done"
  /\ hist.loads = 2
  /\ hist.previous.channels.list # <<>>
  /\ m_channels.list = <<>>

(* Host thread h has run a reading line of its call. *)
HasReadChannel(h) == req[h].pc = "use" /\ req[h].at > 0

(* C23: when two host threads are in GetChannelStreamProperties or
   GetEPGTagStreamProperties at once for different channels, every reading line
   of a call reads, in m_currentChannel, the channel that call looked up: the
   other call does not overwrite it between the lookup and the later uses. *)
C23_CallsReadTheirOwnChannel ==
  \A h \in DOMAIN req : HasReadChannel(h) => req[h].read = req[h].mine

=============================================================================
